---- MODULE Spec2Model ----
(***************************************************************************)
(* Model of the table / field / entry API of task-airtable-clone, of its   *)
(* entry-data validator, of the editable grid of EntryManager, of          *)
(* dbConnect and of handlers running side by side.                         *)
(*                                                                         *)
(* Strings are sequences of one-character strings so that trim(),          *)
(* toLowerCase(), Number() and the regular expressions of the source can   *)
(* be computed rather than assumed.                                        *)
(***************************************************************************)
EXTENDS Integers, Sequences, FiniteSets, TLC

----------------------------------------------------------------------------
(* Bounds of the model.                                                    *)

\* longest field list handed to the validator specification
MaxVFields == 1

\* tables, fields and entries ever created in a run of the API specification
MaxTables == 2
MaxFieldIds == 2
MaxEntries == 2

----------------------------------------------------------------------------
(* JavaScript values.  k is the typeof-like tag, s the characters of a     *)
(* string, n the value of a number (or 1/0 for true/false).                *)

Null      == [k |-> "null",      s |-> <<>>, n |-> 0]
Undefined == [k |-> "undefined", s |-> <<>>, n |-> 0]
Func      == [k |-> "function",  s |-> <<>>, n |-> 0]
Obj       == [k |-> "object",    s |-> <<>>, n |-> 0]
Str(s)    == [k |-> "str",       s |-> s,    n |-> 0]
Num(n)    == [k |-> "num",       s |-> <<>>, n |-> n]
Bool(b)   == [k |-> "bool",      s |-> <<>>, n |-> IF b THEN 1 ELSE 0]

\* characters matched by \s and removed by String.prototype.trim
WhiteSpace == {" "}

RECURSIVE trimStart(_)
trimStart(s) ==
    IF s # <<>> /\ Head(s) \in WhiteSpace THEN trimStart(Tail(s)) ELSE s

RECURSIVE trimEnd(_)
trimEnd(s) ==
    IF s # <<>> /\ s[Len(s)] \in WhiteSpace
    THEN trimEnd(SubSeq(s, 1, Len(s) - 1))
    ELSE s

\* String.prototype.trim
trim(s) == trimEnd(trimStart(s))

UpperToLower == ("A" :> "a") @@ ("T" :> "t") @@ ("Z" :> "z")

lowerChar(c) == IF c \in DOMAIN UpperToLower THEN UpperToLower[c] ELSE c

\* String.prototype.toLowerCase
toLowerCase(s) == [i \in 1..Len(s) |-> lowerChar(s[i])]

DigitVal == ("0" :> 0) @@ ("1" :> 1) @@ ("2" :> 2) @@ ("3" :> 3) @@ ("4" :> 4)
            @@ ("5" :> 5) @@ ("6" :> 6) @@ ("7" :> 7) @@ ("8" :> 8) @@ ("9" :> 9)

IsDigit(c) == c \in DOMAIN DigitVal

RECURSIVE DecimalValue(_)
DecimalValue(s) ==
    IF s = <<>> THEN 0
    ELSE 10 * DecimalValue(SubSeq(s, 1, Len(s) - 1)) + DigitVal[s[Len(s)]]

\* Number(value): [nan, n].  A string is trimmed first; the empty string is
\* 0, a run of decimal digits is its value, anything else over the model's
\* alphabet is NaN.  true/false are 1/0, a function is NaN.
ToNumber(v) ==
    CASE v.k = "num"  -> [nan |-> FALSE, n |-> v.n]
      [] v.k = "bool" -> [nan |-> FALSE, n |-> v.n]
      [] v.k = "null" -> [nan |-> FALSE, n |-> 0]
      [] v.k = "str"  ->
            LET t == trim(v.s) IN
            IF \A i \in 1..Len(t) : IsDigit(t[i])
            THEN [nan |-> FALSE, n |-> DecimalValue(t)]
            ELSE [nan |-> TRUE, n |-> 0]
      [] OTHER        -> [nan |-> TRUE, n |-> 0]

NotSpaceOrAt(s) == \A i \in 1..Len(s) : s[i] \notin WhiteSpace /\ s[i] # "@"

\* /^[^\s@]+@[^\s@]+\.[^\s@]+$/.test(s)
emailRegex(s) ==
    \E i \in 1..Len(s) : \E j \in 1..Len(s) :
        /\ 1 < i /\ i + 1 < j /\ j < Len(s)
        /\ s[i] = "@" /\ s[j] = "."
        /\ NotSpaceOrAt(SubSeq(s, 1, i - 1))
        /\ NotSpaceOrAt(SubSeq(s, i + 1, j - 1))
        /\ NotSpaceOrAt(SubSeq(s, j + 1, Len(s)))

\* /^([01]\d|2[0-3]):([0-5]\d)$/.test(s)
timeRegex(s) ==
    /\ Len(s) = 5
    /\ \/ s[1] \in {"0", "1"} /\ IsDigit(s[2])
       \/ s[1] = "2" /\ s[2] \in {"0", "1", "2", "3"}
    /\ s[3] = ":"
    /\ s[4] \in {"0", "1", "2", "3", "4", "5"}
    /\ IsDigit(s[5])

\* options.includes(value) for a string value
includes(options, s) == \E i \in 1..Len(options) : options[i] = s

RECURSIVE join(_)
\* options.join(', ')
join(options) ==
    IF options = <<>> THEN <<>>
    ELSE IF Len(options) = 1 THEN options[1]
    ELSE options[1] \o <<",", " ">> \o join(Tail(options))

----------------------------------------------------------------------------
(* Field definitions.                                                      *)

validFieldTypes ==
    {"text", "number", "email", "time", "multiple_choice", "website", "date"}

\* the options property: undefined, an array of strings, or (in a request
\* body) something that is not an array
NoOptions       == [k |-> "undefined", list |-> <<>>]
Options(list)   == [k |-> "array",     list |-> list]
NotArrayOptions == [k |-> "str",       list |-> <<>>]

\* field.options && Array.isArray(field.options)
IsArray(options) == options.k = "array"

\* properties every plain object inherits from Object.prototype; the model
\* carries the two its inputs name: constructor, a data property holding
\* the Object function, and __proto__, an accessor whose getter returns the
\* prototype and whose setter adds no own property
SConstructor == <<"c", "o", "n", "s", "t", "r", "u", "c", "t", "o", "r">>
SProto == <<"_", "_", "p", "r", "o", "t", "o", "_", "_">>
ObjectPrototypeProps == {SConstructor, SProto}

\* data[fieldName] on the object parsed from the request body; a key of
\* the JSON text is an own property, whatever its name
GetProp(data, key) ==
    IF key \in DOMAIN data THEN data[key]
    ELSE IF key = SProto THEN Obj
    ELSE IF key \in ObjectPrototypeProps THEN Func
    ELSE Undefined

\* obj[key] = value on an object created by {} gives obj an own property,
\* except for __proto__, where the inherited setter runs instead
CreatesOwnProperty(key) == key # SProto

SetProp(obj, key, value) ==
    IF CreatesOwnProperty(key) THEN (key :> value) @@ obj ELSE obj

----------------------------------------------------------------------------
(* validateData                                                            *)

Msg(text, arg) == [text |-> text, arg |-> arg]

fieldMapHas(fields, key) == \E i \in 1..Len(fields) : fields[i].name = key

\* the keys of data for which the first loop's test !fieldMap.has(key) holds
UnknownKeys(data, fields) == {k \in DOMAIN data : ~fieldMapHas(fields, k)}

\* first loop: errors[key] = ... for every key of data that is not a field
\* name
UnknownKeyErrors(data, fields) ==
    [key \in {k \in UnknownKeys(data, fields) : CreatesOwnProperty(k)} |->
        Msg("Field does not exist in the table definition.", key)]

Rejected(value, text, arg) == [ok |-> FALSE, parsed |-> value, msg |-> Msg(text, arg)]
Accepted(parsed) == [ok |-> TRUE, parsed |-> parsed, msg |-> Msg("", <<>>)]

\* case 'text'
CheckText(value) ==
    IF value.k # "str"
    THEN Rejected(value, "Must be a string.", <<>>)
    ELSE Accepted(Str(trim(value.s)))

\* case 'number'
CheckNumber(value) ==
    LET num == ToNumber(value) IN
    IF num.nan
    THEN Rejected(value, "Must be a valid number.", <<>>)
    ELSE Accepted(Num(num.n))

\* case 'email'
CheckEmail(value) ==
    IF value.k # "str" \/ ~emailRegex(value.s)
    THEN Rejected(value, "Must be a valid email address.", <<>>)
    ELSE Accepted(Str(trim(value.s)))

\* case 'time'
CheckTime(value) ==
    IF value.k # "str" \/ ~timeRegex(value.s)
    THEN Rejected(value, "Must be a valid time in HH:MM (24-hour) format.", <<>>)
    ELSE Accepted(Str(trim(value.s)))

\* case 'multiple_choice'
CheckMultipleChoice(field, value) ==
    IF value.k # "str"
    THEN Rejected(value, "Must be a string value.", <<>>)
    ELSE IF IsArray(field.options) /\ ~includes(field.options.list, value.s)
    THEN Rejected(value, "Value must be one of the valid options", join(field.options.list))
    ELSE Accepted(Str(trim(value.s)))

\* the switch on fieldType: [ok, parsed, msg]
CheckField(field, value) ==
    CASE field.type = "text"            -> CheckText(value)
      [] field.type = "number"          -> CheckNumber(value)
      [] field.type = "email"           -> CheckEmail(value)
      [] field.type = "time"            -> CheckTime(value)
      [] field.type = "multiple_choice" -> CheckMultipleChoice(field, value)
      [] OTHER -> Rejected(value, "Unknown field type", <<field.type>>)

\* value === undefined || value === null || value === ''
IsEmptyValue(value) ==
    value.k = "undefined" \/ value.k = "null" \/ value = Str(<<>>)

RECURSIVE ValidateFields(_, _, _, _)
\* second loop, from field i on, acc = the result so far
ValidateFields(data, fields, i, acc) ==
    IF i > Len(fields) THEN acc
    ELSE
        LET field == fields[i]
            value == GetProp(data, field.name)
            chk   == CheckField(field, value)
            next  ==
                IF IsEmptyValue(value)
                THEN [acc EXCEPT !.validatedData = SetProp(@, field.name, Null)]
                ELSE IF chk.ok
                THEN [acc EXCEPT !.validatedData = SetProp(@, field.name, chk.parsed)]
                ELSE [acc EXCEPT !.errors = SetProp(@, field.name, chk.msg),
                                 !.isValid = FALSE]
        IN  ValidateFields(data, fields, i + 1, next)

validateData(data, fields) ==
    ValidateFields(data, fields, 1,
        [isValid |-> UnknownKeys(data, fields) = {},
         errors |-> UnknownKeyErrors(data, fields),
         validatedData |-> <<>>])

----------------------------------------------------------------------------
(* Inputs of the validator specification.                                  *)

SAge    == <<"A", "g", "e">>
SZip    == <<"Z", "i", "p">>
SEmpty  == <<>>
SBlank  == <<" ", " ">>
S42     == <<"4", "2">>
SSp42   == <<" ", "4", "2", " ">>
SAbc    == <<"a", "b", "c">>
SMail   == <<"a", "@", "b", ".", "c">>
STime   == <<"0", "9", ":", "3", "0">>
SBadTime == <<"2", "4", ":", "0", "0">>
SRed    == <<"r", "e", "d">>
SRedSp  == <<" ", "r", "e", "d">>
SUrl    == <<"h", "t", "t", "p", ":", "/", "/", "a", ".", "b">>
SDate   == <<"2", "0", "2", "4", "-", "0", "1", "-", "0", "2">>

RawStrings ==
    {SEmpty, SBlank, S42, SSp42, SAbc, SMail, STime, SBadTime, SRed, SRedSp,
     SUrl, SDate}

RawValues == {Null, Num(42), Bool(TRUE)} \cup {Str(s) : s \in RawStrings}

VOptions == {NoOptions, Options(<<>>), Options(<<SRed>>), Options(<<SRedSp, S42>>)}

VFieldDefs(name) ==
    {[name |-> name, type |-> t, options |-> NoOptions] :
        t \in validFieldTypes \ {"multiple_choice"}}
    \cup {[name |-> name, type |-> "multiple_choice", options |-> o] : o \in VOptions}

VFieldNames == {SAge, SConstructor, SProto}

RECURSIVE VFieldLists(_)
\* field lists of length <= n with distinct names
VFieldLists(n) ==
    IF n = 0 THEN {<<>>}
    ELSE LET shorter == VFieldLists(n - 1) IN
         shorter \cup
         {Append(l, f) : l \in {x \in shorter : Len(x) = n - 1},
                         f \in UNION {VFieldDefs(nm) : nm \in VFieldNames}}

DistinctNames(fields) ==
    \A i, j \in 1..Len(fields) : fields[i].name = fields[j].name => i = j

\* data maps: SAge holds any raw value, the other keys one of a few
VDataMaps ==
    LET Absent == Undefined
        pick(a, c, p, z) ==
            [key \in ({SAge : x \in {a} \ {Absent}}
                      \cup {SConstructor : x \in {c} \ {Absent}}
                      \cup {SProto : x \in {p} \ {Absent}}
                      \cup {SZip : x \in {z} \ {Absent}}) |->
                IF key = SAge THEN a
                ELSE IF key = SConstructor THEN c
                ELSE IF key = SProto THEN p
                ELSE z]
    IN  {pick(a, c, p, z) : a \in RawValues \cup {Absent},
                            c \in {Absent, Str(SAbc)},
                            p \in {Absent, Null, Str(S42), Str(SRed)},
                            z \in {Absent, Null, Str(SAbc)}}

----------------------------------------------------------------------------
(* State.                                                                  *)

VARIABLES
    tables,       \* the tables collection: id -> [name, fields]
    entries,      \* the entries collection: id -> [tableId, data]
    nextTableId,  \* ids handed out so far, per kind of document
    nextFieldId,
    nextEntryId,
    conn,         \* cached.conn of dbConnect: "none" or "open"
    cur,          \* the request last received, op "none" before the first
    calls,        \* the store calls issued so far for the request last received
    tx,           \* the session and transaction of a table DELETE in progress
    resp,         \* the response to cur, op "none" while cur is being handled
    vpc,          \* "input", "validated" or "revalidated"
    vFields,      \* field list handed to validateData
    vData,        \* raw data map handed to validateData
    vOut,         \* validateData(vData, vFields)
    vOut2,        \* validateData(vOut.validatedData, vFields)
    gEntries,     \* the entries prop of EntryManager: the rows displayed
    editingCell,  \* useState<CellPosition | null>
    editValue,    \* useState<string>
    updating,     \* useState(false): a cell save is running
    updateError,  \* useState<string | null>
    saves,        \* the PUT requests of saveEditedCell not yet settled
    event,        \* the event last handled by the grid
    selectedRows, \* useState<Set<string>>: ids of the rows ticked
    deletes,      \* the DELETE requests of handleDeleteEntry not yet settled
    error,        \* useState<string | null>: the error shown by the component
    deleteError,  \* useState<string | null>
    deleting,     \* useState<string | null>: entry id, 0 for null
    showDeleteConfirm, \* useState<string | null>: entry id, 0 for null
    isDragging,   \* useState(false)
    dragStart,    \* useState<CellPosition | null>
    dragEnd,      \* useState<CellPosition | null>
    mouse,        \* the cell the mouse button went down on, NoCell when up
    procs,        \* the handlers running side by side: position and locals
    cached,       \* the cache of dbConnect: { conn, promise }
    attempts      \* the mongoose.connect calls made so far and their outcome

store == <<tables, entries>>
ids   == <<nextTableId, nextFieldId, nextEntryId>>
avars == <<tables, entries, nextTableId, nextFieldId, nextEntryId, conn, cur, calls,
           tx, resp>>
vvars == <<vpc, vFields, vData, vOut, vOut2>>
gvars == <<gEntries, editingCell, editValue, updating, updateError, saves, event>>
rvars == <<selectedRows, deletes, error, deleteError, deleting, showDeleteConfirm>>
dvars == <<isDragging, dragStart, dragEnd, mouse>>
cvars == <<procs, cached, attempts>>
uvars == <<gvars, rvars, dvars, cvars>>
vars  == <<tables, entries, nextTableId, nextFieldId, nextEntryId, conn, cur, calls,
           tx, resp, vpc, vFields, vData, vOut, vOut2,
           gEntries, editingCell, editValue, updating, updateError, saves, event,
           selectedRows, deletes, error, deleteError, deleting, showDeleteConfirm,
           isDragging, dragStart, dragEnd, mouse, procs, cached, attempts>>

\* body of a field request: { name, type, options }
FieldBody(name, type, options) == [name |-> name, type |-> type, options |-> options]

\* body.data: a plain object with the given map, or anything else
DataObject(map) == [k |-> "object", map |-> map]
NotAnObject     == [k |-> "other",  map |-> <<>>]

\* a request: the handler, context.params.tableId, the fieldId or entryId
\* of the body or query, and the rest of the body
Request(op, tableId, id, body, data) ==
    [op |-> op, tableId |-> tableId, id |-> id, body |-> body, data |-> data]

NoRequest == Request("none", -1, -1, FieldBody(Undefined, "", NoOptions), NotAnObject)

\* the JSON body { success, message, errors } sent with a status; json is
\* FALSE when the handler threw instead of returning a response
Response(op, status, message, errors) ==
    [op |-> op, json |-> TRUE, status |-> status, success |-> status \in {200, 201},
     message |-> message, errors |-> errors]

NoResponse == [Response("none", 0, "", <<>>) EXCEPT !.json = FALSE]

NoResult == [isValid |-> TRUE, errors |-> <<>>, validatedData |-> <<>>]
NoTx     == [pc |-> "idle", delTables |-> {}, delEntries |-> {}]

\* a CellPosition { entryId, fieldId, rowIndex, colIndex }; NoCell is null
Cell(entryId, fieldId, rowIndex, colIndex) ==
    [entryId |-> entryId, fieldId |-> fieldId, rowIndex |-> rowIndex,
     colIndex |-> colIndex]

NoCell == Cell(0, 0, -1, -1)

\* updateError === null
NoError == "null"

\* an event of the grid: a keydown (key, shiftKey), blur, change or click of
\* the browser, or the settling ("resolved" / "rejected") of a save's fetch;
\* cell is the cell the event is about
Event(type, key, shiftKey, cell) ==
    [type |-> type, key |-> key, shiftKey |-> shiftKey, cell |-> cell]

NoEvent == Event("none", "", FALSE, NoCell)

\* empty collections, no request received yet
ApiInit ==
    /\ tables = <<>>
    /\ entries = <<>>
    /\ nextTableId = 1
    /\ nextFieldId = 1
    /\ nextEntryId = 1
    /\ conn = "none"
    /\ cur = NoRequest
    /\ calls = <<>>
    /\ tx = NoTx
    /\ resp = NoResponse

\* no validator run in progress
VIdle ==
    /\ vpc = "input"
    /\ vFields = <<>>
    /\ vData = <<>>
    /\ vOut = NoResult
    /\ vOut2 = NoResult

\* no grid mounted
GIdle ==
    /\ gEntries = <<>>
    /\ editingCell = NoCell
    /\ editValue = <<>>
    /\ updating = FALSE
    /\ updateError = NoError
    /\ saves = {}
    /\ event = NoEvent

\* no row ticked, no delete asked for or running
RIdle ==
    /\ selectedRows = {}
    /\ deletes = {}
    /\ error = NoError
    /\ deleteError = NoError
    /\ deleting = 0
    /\ showDeleteConfirm = 0

\* no drag selection, mouse button up
DIdle ==
    /\ isDragging = FALSE
    /\ dragStart = NoCell
    /\ dragEnd = NoCell
    /\ mouse = NoCell

\* no handler running beside the request in cur, nothing cached by dbConnect
CIdle ==
    /\ procs = <<>>
    /\ cached = [conn |-> 0, promise |-> 0]
    /\ attempts = <<>>

UIdle == GIdle /\ RIdle /\ DIdle /\ CIdle

----------------------------------------------------------------------------
(* The validator on its own.                                               *)

VInit ==
    /\ ApiInit
    /\ vpc = "input"
    /\ vFields \in {l \in VFieldLists(MaxVFields) : DistinctNames(l)}
    /\ vData \in VDataMaps
    /\ vOut = NoResult
    /\ vOut2 = NoResult
    /\ UIdle

\* the handler's call validateData(inputData, table.fields)
Validate ==
    /\ vpc = "input"
    /\ vOut' = validateData(vData, vFields)
    /\ vpc' = "validated"
    /\ UNCHANGED <<vFields, vData, vOut2>>
    /\ UNCHANGED <<avars, uvars>>

\* the stored, normalized map submitted again against the same fields
Revalidate ==
    /\ vpc = "validated"
    /\ vOut.isValid
    /\ vOut2' = validateData(vOut.validatedData, vFields)
    /\ vpc' = "revalidated"
    /\ UNCHANGED <<vFields, vData, vOut>>
    /\ UNCHANGED <<avars, uvars>>

VNext == Validate \/ Revalidate

SpecValidator == VInit /\ [][VNext]_vars

----------------------------------------------------------------------------
(* Store helpers.                                                          *)

\* mongoose.Types.ObjectId.isValid(id): -1 stands for a malformed id, 0 for
\* a well-formed id no document has, n > 0 for the n-th id handed out
IsValidObjectId(id) == id >= 0

\* Table.findById(tableId) found a document
TableFound(tid) == tid \in DOMAIN tables

\* fields.findIndex(field => String(field._id) === fieldId), 0 for -1
findIndex(fields, fieldId) ==
    IF \E i \in 1..Len(fields) : fields[i].id = fieldId
    THEN CHOOSE i \in 1..Len(fields) : fields[i].id = fieldId
    ELSE 0

\* fields.splice(index, 1)
splice(fields, index) ==
    SubSeq(fields, 1, index - 1) \o SubSeq(fields, index + 1, Len(fields))

\* one atom of the pattern against one character, with the i option
regexAtom(c, d) == c = "." \/ lowerChar(c) = lowerChar(d)

RECURSIVE regexMatch(_, _)
\* { $regex: `^${p}$`, $options: 'i' } against s; of the metacharacters the
\* model has "." and the quantifier "?" (p does not start with "?")
regexMatch(p, s) ==
    IF p = <<>> THEN s = <<>>
    ELSE IF Len(p) >= 2 /\ p[2] = "?"
    THEN \/ regexMatch(SubSeq(p, 3, Len(p)), s)
         \/ /\ s # <<>>
            /\ regexAtom(p[1], s[1])
            /\ regexMatch(SubSeq(p, 3, Len(p)), Tail(s))
    ELSE /\ s # <<>>
         /\ regexAtom(p[1], s[1])
         /\ regexMatch(Tail(p), Tail(s))

\* !name || typeof name !== 'string' || name.trim() === ''
BadName(name) == name.k # "str" \/ trim(name.s) = <<>>

\* !options || !Array.isArray(options) || options.length === 0
BadOptionsList(options) == ~IsArray(options) \/ Len(options.list) = 0

\* an element of an options array that is not a string (the number 42):
\* a sequence that no string of the model equals
NumberOption == <<"#42">>

\* typeof opt === 'string'
IsStringOption(opt) == opt # NumberOption

\* the check of the options' elements without the typeof test
BlankOptionAnyType(options) ==
    \E i \in 1..Len(options.list) : trim(options.list[i]) = <<>>

\* !options.every(opt => typeof opt === 'string' && opt.trim() !== '')
BlankOption(options) ==
    \E i \in 1..Len(options.list) :
        ~IsStringOption(options.list[i]) \/ trim(options.list[i]) = <<>>

\* validation run by table.save(): TableSchema.fields.validate and
\* FieldSchemaForTable
TableSchemaValid(fields) ==
    /\ \A i, j \in 1..Len(fields) : fields[i].name = fields[j].name => i = j
    /\ \A i \in 1..Len(fields) :
        /\ fields[i].type \in validFieldTypes
        /\ fields[i].type = "multiple_choice" => Len(fields[i].options.list) > 0

\* the options of the body stored whatever the type
StoredOptionsOfAnyType(type, options) ==
    IF IsArray(options) THEN options ELSE Options(<<>>)

\* the options a field subdocument holds once saved and read back
StoredOptions(type, options) ==
    IF type = "multiple_choice" /\ IsArray(options) THEN options ELSE Options(<<>>)

----------------------------------------------------------------------------
(* Requests and responses.                                                 *)

\* a request has been received and not answered yet
InFlight == cur.op # "none" /\ resp.op = "none"

\* the server takes up a request; requests are handled one at a time
Receive(request) ==
    /\ ~InFlight
    /\ cur' = request
    /\ resp' = NoResponse
    /\ calls' = <<>>
    /\ UNCHANGED <<store, ids, conn, tx, vvars, uvars>>

\* return NextResponse.json({ success, message, errors }, { status }) on a
\* path of the handler that issued the given store calls
Answer(status, message, errors, issued) ==
    /\ resp' = Response(cur.op, status, message, errors)
    /\ UNCHANGED cur
    /\ calls' = calls \o issued

\* await dbConnect() resolves: the cached connection, or a new one
dbConnect == conn' = "open"

\* await dbConnect() rejects: there is no cached connection and
\* mongoose.connect fails.  Every handler awaits dbConnect() before its try
\* block, so the handler throws and returns no response of its own.
ConnectFails ==
    /\ InFlight
    /\ tx.pc = "idle"
    /\ conn = "none"
    /\ resp' = [NoResponse EXCEPT !.op = cur.op, !.status = 500]
    /\ UNCHANGED <<store, ids, conn, cur, calls, tx, vvars, uvars>>

----------------------------------------------------------------------------
(* POST /api/tables                                                        *)

TableCreate ==
    /\ cur.op = "tableCreate"
    /\ InFlight
    /\ dbConnect
    /\ IF BadName(cur.body.name)
       THEN /\ Answer(400, "Table name is required and must be a non-empty string.",
                      <<>>, <<>>)
            /\ UNCHANGED <<tables, nextTableId>>
       ELSE LET trimmedName == trim(cur.body.name.s) IN
            IF \E t \in DOMAIN tables : regexMatch(trimmedName, tables[t].name)
            THEN /\ Answer(409, "Table with name already exists.", <<>>,
                           <<"Table.findOne">>)
                 /\ UNCHANGED <<tables, nextTableId>>
            ELSE IF \E t \in DOMAIN tables : tables[t].name = trimmedName
            THEN \* unique index on name: Table.create rejects, generic catch
                 /\ Answer(500, "error.message", <<>>,
                           <<"Table.findOne", "Table.create">>)
                 /\ UNCHANGED <<tables, nextTableId>>
            ELSE /\ nextTableId <= MaxTables
                 /\ tables' = (nextTableId :> [name |-> trimmedName, fields |-> <<>>])
                                  @@ tables
                 /\ nextTableId' = nextTableId + 1
                 /\ Answer(201, "", <<>>, <<"Table.findOne", "Table.create">>)
    /\ UNCHANGED <<entries, nextFieldId, nextEntryId, tx, vvars, uvars>>

----------------------------------------------------------------------------
(* DELETE /api/tables/[tableId]: a session, a transaction, two deletes      *)
(* bound to the session, commit; abort on not found and on any error.      *)

\* ObjectId check, then startSession() and startTransaction()
TableDeleteBegin ==
    /\ cur.op = "tableDelete"
    /\ InFlight
    /\ tx.pc = "idle"
    /\ dbConnect
    /\ IF ~IsValidObjectId(cur.tableId)
       THEN /\ Answer(400, "Invalid Table ID format", <<>>, <<>>)
            /\ UNCHANGED tx
       ELSE /\ tx' = [NoTx EXCEPT !.pc = "started"]
            /\ UNCHANGED <<cur, calls, resp>>
    /\ UNCHANGED <<store, ids, vvars, uvars>>

\* findByIdAndDelete issued without the session option: applied at once
TableDeleteFindNoSession ==
    /\ tx.pc = "started"
    /\ IF ~TableFound(cur.tableId)
       THEN /\ tx' = NoTx
            /\ Answer(404, "Table not found", <<>>, <<"Table.findByIdAndDelete">>)
            /\ UNCHANGED tables
       ELSE /\ tx' = [tx EXCEPT !.pc = "tableDeleted"]
            /\ tables' = [t \in DOMAIN tables \ {cur.tableId} |-> tables[t]]
            /\ calls' = Append(calls, "Table.findByIdAndDelete")
            /\ UNCHANGED <<cur, resp>>
    /\ UNCHANGED <<entries, ids, conn, vvars, uvars>>

\* Table.findByIdAndDelete(tableId, { session }); not found aborts with 404
TableDeleteFind ==
    /\ tx.pc = "started"
    /\ IF ~TableFound(cur.tableId)
       THEN /\ tx' = NoTx
            /\ Answer(404, "Table not found", <<>>, <<"Table.findByIdAndDelete">>)
       ELSE /\ tx' = [tx EXCEPT !.pc = "tableDeleted", !.delTables = {cur.tableId}]
            /\ calls' = Append(calls, "Table.findByIdAndDelete")
            /\ UNCHANGED <<cur, resp>>
    /\ UNCHANGED <<store, ids, conn, vvars, uvars>>

\* Entry.deleteMany({ tableId }, { session })
TableDeleteEntries ==
    /\ tx.pc = "tableDeleted"
    /\ tx' = [tx EXCEPT !.pc = "entriesDeleted",
                        !.delEntries = {e \in DOMAIN entries :
                                            entries[e].tableId = cur.tableId}]
    /\ calls' = Append(calls, "Entry.deleteMany")
    /\ UNCHANGED <<store, ids, conn, cur, resp, vvars, uvars>>

\* session.commitTransaction(): the writes of the transaction take effect
TableDeleteCommit ==
    /\ tx.pc = "entriesDeleted"
    /\ tables' = [t \in DOMAIN tables \ tx.delTables |-> tables[t]]
    /\ entries' = [e \in DOMAIN entries \ tx.delEntries |-> entries[e]]
    /\ tx' = NoTx
    /\ Answer(200, "Table and all associated entries deleted successfully", <<>>,
              <<"commitTransaction">>)
    /\ UNCHANGED <<ids, conn, vvars, uvars>>

\* the awaited store call throws: abortTransaction(), endSession(), 500
TableDeleteFail ==
    /\ tx.pc \in {"started", "tableDeleted", "entriesDeleted"}
    /\ tx' = NoTx
    /\ Answer(500, "error.message", <<>>,
              <<CASE tx.pc = "started"      -> "Table.findByIdAndDelete"
                  [] tx.pc = "tableDeleted" -> "Entry.deleteMany"
                  [] OTHER                  -> "commitTransaction">>)
    /\ UNCHANGED <<store, ids, conn, vvars, uvars>>

----------------------------------------------------------------------------
(* /api/tables/[tableId]/fields                                            *)

\* the 400 checks of the body shared by POST and PUT
BadFieldBody(body) ==
    \/ BadName(body.name)
    \/ body.type \notin validFieldTypes
    \/ /\ body.type = "multiple_choice"
       /\ (BadOptionsList(body.options) \/ BlankOption(body.options))

\* the message of the first of these checks that fails
FieldBodyMessage(body) ==
    IF BadName(body.name)
    THEN "Field name is required and must be a non-empty string."
    ELSE IF body.type \notin validFieldTypes
    THEN "Field type must be one of"
    ELSE IF BadOptionsList(body.options)
    THEN "Multiple choice fields must have at least one option."
    ELSE "All options must be non-empty strings."

\* the name check comparing the names as they are
fieldNameExistsExact(fields, trimmedName, skip) ==
    \E i \in 1..Len(fields) : i # skip /\ fields[i].name = trimmedName

\* fields.some(field => field.name.toLowerCase() === trimmedName.toLowerCase())
\* over the indexes other than skip
fieldNameExists(fields, trimmedName, skip) ==
    \E i \in 1..Len(fields) :
        i # skip /\ toLowerCase(fields[i].name) = toLowerCase(trimmedName)

\* table.save() of a changed field list
SaveFields(fields, okStatus, okMessage) ==
    IF TableSchemaValid(fields)
    THEN /\ tables' = [tables EXCEPT ![cur.tableId].fields = fields]
         /\ Answer(okStatus, okMessage, <<>>, <<"Table.findById", "table.save">>)
    ELSE /\ Answer(400, "error.message", <<>>, <<"Table.findById", "table.save">>)
         /\ UNCHANGED tables

\* the subdocument written for the body of a POST or PUT
NewField(id, body) ==
    [id |-> id, name |-> trim(body.name.s), type |-> body.type,
     options |-> StoredOptions(body.type, body.options)]

FieldPost ==
    /\ cur.op = "fieldPost"
    /\ InFlight
    /\ dbConnect
    /\ IF ~IsValidObjectId(cur.tableId)
       THEN /\ Answer(400, "Invalid Table ID format", <<>>, <<>>)
            /\ UNCHANGED <<tables, nextFieldId>>
       ELSE IF BadFieldBody(cur.body)
       THEN /\ Answer(400, FieldBodyMessage(cur.body), <<>>, <<>>)
            /\ UNCHANGED <<tables, nextFieldId>>
       ELSE IF ~TableFound(cur.tableId)
       THEN /\ Answer(404, "Table not found", <<>>, <<"Table.findById">>)
            /\ UNCHANGED <<tables, nextFieldId>>
       ELSE IF fieldNameExists(tables[cur.tableId].fields, trim(cur.body.name.s), 0)
       THEN /\ Answer(409, "Field with name already exists in this table.", <<>>,
                      <<"Table.findById">>)
            /\ UNCHANGED <<tables, nextFieldId>>
       ELSE /\ nextFieldId <= MaxFieldIds
            /\ SaveFields(Append(tables[cur.tableId].fields,
                                 NewField(nextFieldId, cur.body)), 201, "")
            /\ nextFieldId' = nextFieldId + 1
    /\ UNCHANGED <<entries, nextTableId, nextEntryId, tx, vvars, uvars>>

FieldPut ==
    /\ cur.op = "fieldPut"
    /\ InFlight
    /\ dbConnect
    /\ IF ~IsValidObjectId(cur.tableId)
       THEN /\ Answer(400, "Invalid Table ID format", <<>>, <<>>)
            /\ UNCHANGED tables
       ELSE IF ~IsValidObjectId(cur.id)
       THEN /\ Answer(400, "Valid field ID is required", <<>>, <<>>)
            /\ UNCHANGED tables
       ELSE IF BadFieldBody(cur.body)
       THEN /\ Answer(400, FieldBodyMessage(cur.body), <<>>, <<>>)
            /\ UNCHANGED tables
       ELSE IF ~TableFound(cur.tableId)
       THEN /\ Answer(404, "Table not found", <<>>, <<"Table.findById">>)
            /\ UNCHANGED tables
       ELSE IF findIndex(tables[cur.tableId].fields, cur.id) = 0
       THEN /\ Answer(404, "Field not found", <<>>, <<"Table.findById">>)
            /\ UNCHANGED tables
       ELSE LET fields     == tables[cur.tableId].fields
                fieldIndex == findIndex(fields, cur.id)
            IN
            IF fieldNameExists(fields, trim(cur.body.name.s), fieldIndex)
            THEN /\ Answer(409, "Field with name already exists in this table.", <<>>,
                           <<"Table.findById">>)
                 /\ UNCHANGED tables
            ELSE SaveFields([fields EXCEPT ![fieldIndex] = NewField(cur.id, cur.body)],
                            200, "Field updated successfully")
    /\ UNCHANGED <<entries, ids, tx, vvars, uvars>>

FieldDelete ==
    /\ cur.op = "fieldDelete"
    /\ InFlight
    /\ dbConnect
    /\ IF ~IsValidObjectId(cur.tableId)
       THEN /\ Answer(400, "Invalid Table ID format", <<>>, <<>>)
            /\ UNCHANGED tables
       ELSE IF ~IsValidObjectId(cur.id)
       THEN /\ Answer(400, "Valid field ID is required", <<>>, <<>>)
            /\ UNCHANGED tables
       ELSE IF ~TableFound(cur.tableId)
       THEN /\ Answer(404, "Table not found", <<>>, <<"Table.findById">>)
            /\ UNCHANGED tables
       ELSE IF findIndex(tables[cur.tableId].fields, cur.id) = 0
       THEN /\ Answer(404, "Field not found", <<>>, <<"Table.findById">>)
            /\ UNCHANGED tables
       ELSE SaveFields(splice(tables[cur.tableId].fields,
                              findIndex(tables[cur.tableId].fields, cur.id)),
                       200, "Field deleted successfully")
    /\ UNCHANGED <<entries, ids, tx, vvars, uvars>>

----------------------------------------------------------------------------
(* /api/tables/[tableId]/entries                                           *)

\* the entry looked up by its id alone
EntryFoundInAnyTable(entryId, tid) == entryId \in DOMAIN entries

\* Entry.findOne({ _id: entryId, tableId }) found a document
EntryFound(entryId, tid) ==
    entryId \in DOMAIN entries /\ entries[entryId].tableId = tid

\* if (!isValid)
InvalidData(v) == ~v.isValid

EntryPost ==
    /\ cur.op = "entryPost"
    /\ InFlight
    /\ dbConnect
    /\ IF ~IsValidObjectId(cur.tableId)
       THEN /\ Answer(400, "Invalid Table ID format", <<>>, <<>>)
            /\ UNCHANGED <<entries, nextEntryId>>
       ELSE IF ~TableFound(cur.tableId)
       THEN /\ Answer(404, "Table not found", <<>>, <<"Table.findById">>)
            /\ UNCHANGED <<entries, nextEntryId>>
       ELSE IF cur.data.k # "object"
       THEN /\ Answer(400, "Request body must contain a non-array data object.",
                      <<>>, <<"Table.findById">>)
            /\ UNCHANGED <<entries, nextEntryId>>
       ELSE LET v == validateData(cur.data.map, tables[cur.tableId].fields) IN
            IF InvalidData(v)
            THEN /\ Answer(400, "Data validation failed", v.errors,
                           <<"Table.findById">>)
                 /\ UNCHANGED <<entries, nextEntryId>>
            ELSE /\ nextEntryId <= MaxEntries
                 /\ entries' = (nextEntryId :> [tableId |-> cur.tableId,
                                                data |-> v.validatedData])
                                   @@ entries
                 /\ nextEntryId' = nextEntryId + 1
                 /\ Answer(201, "", <<>>, <<"Table.findById", "Entry.create">>)
    /\ UNCHANGED <<tables, nextTableId, nextFieldId, tx, vvars, uvars>>

\* entry.data = dataMap that keeps what the entry held
KeepEntryData(entry, dataMap) == [entry EXCEPT !.data = @ @@ dataMap]

\* entry.data = dataMap, the Map built from the entries of validatedData
SetEntryData(entry, dataMap) == [entry EXCEPT !.data = dataMap]

EntryPut ==
    /\ cur.op = "entryPut"
    /\ InFlight
    /\ dbConnect
    /\ IF ~IsValidObjectId(cur.tableId)
       THEN /\ Answer(400, "Invalid Table ID format", <<>>, <<>>)
            /\ UNCHANGED entries
       ELSE IF ~IsValidObjectId(cur.id)
       THEN /\ Answer(400, "Valid entry ID is required", <<>>, <<>>)
            /\ UNCHANGED entries
       ELSE IF cur.data.k # "object"
       THEN /\ Answer(400, "Entry data must be an object", <<>>, <<>>)
            /\ UNCHANGED entries
       ELSE IF ~TableFound(cur.tableId)
       THEN /\ Answer(404, "Table not found", <<>>, <<"Table.findById">>)
            /\ UNCHANGED entries
       ELSE IF ~EntryFound(cur.id, cur.tableId)
       THEN /\ Answer(404, "Entry not found", <<>>,
                      <<"Table.findById", "Entry.findOne">>)
            /\ UNCHANGED entries
       ELSE LET v == validateData(cur.data.map, tables[cur.tableId].fields) IN
            IF InvalidData(v)
            THEN /\ Answer(400, "Data validation failed", v.errors,
                           <<"Table.findById", "Entry.findOne">>)
                 /\ UNCHANGED entries
            ELSE /\ entries' = [entries EXCEPT ![cur.id] = SetEntryData(@, v.validatedData)]
                 /\ Answer(200, "Entry updated successfully", <<>>,
                           <<"Table.findById", "Entry.findOne", "entry.save">>)
    /\ UNCHANGED <<tables, ids, tx, vvars, uvars>>

EntryDelete ==
    /\ cur.op = "entryDelete"
    /\ InFlight
    /\ dbConnect
    /\ IF ~IsValidObjectId(cur.tableId)
       THEN /\ Answer(400, "Invalid Table ID format", <<>>, <<>>)
            /\ UNCHANGED entries
       ELSE IF ~IsValidObjectId(cur.id)
       THEN /\ Answer(400, "Valid entry ID is required", <<>>, <<>>)
            /\ UNCHANGED entries
       ELSE IF ~TableFound(cur.tableId)
       THEN /\ Answer(404, "Table not found", <<>>, <<"Table.findById">>)
            /\ UNCHANGED entries
       ELSE IF ~EntryFound(cur.id, cur.tableId)
       THEN /\ Answer(404, "Entry not found", <<>>,
                      <<"Table.findById", "Entry.findOneAndDelete">>)
            /\ UNCHANGED entries
       ELSE /\ entries' = [e \in DOMAIN entries \ {cur.id} |-> entries[e]]
            /\ Answer(200, "Entry deleted successfully", <<>>,
                      <<"Table.findById", "Entry.findOneAndDelete">>)
    /\ UNCHANGED <<tables, ids, tx, vvars, uvars>>

----------------------------------------------------------------------------
(* Requests of the API specifications.                                     *)

STab   == <<"T", "a", "b">>
STabLc == <<"t", "a", "b", " ">>
STabQ  == <<"T", "a", "b", "?">>
STabQLc == <<"t", "a", "b", "?">>
SAgeLc == <<" ", "a", "g", "e">>

TableNameInputs == {Str(STab), Str(STabLc), Str(STabQ), Str(STabQLc), Str(SBlank), Undefined}

\* request bodies of field POST and PUT: well-formed ones whose names
\* collide ignoring case and blanks, and one for each 400 check
FieldBodyInputs ==
    {FieldBody(Str(SAge), "number", NoOptions),
     FieldBody(Str(SAgeLc), "website", NoOptions),
     FieldBody(Str(SAgeLc), "multiple_choice", Options(<<SRed>>)),
     FieldBody(Str(SZip), "number", Options(<<SRed>>)),
     FieldBody(Undefined, "number", NoOptions),
     FieldBody(Str(SBlank), "number", NoOptions),
     FieldBody(Str(SAge), "bogus", NoOptions),
     FieldBody(Str(SAge), "multiple_choice", NoOptions),
     FieldBody(Str(SAge), "multiple_choice", NotArrayOptions),
     FieldBody(Str(SAge), "multiple_choice", Options(<<>>)),
     FieldBody(Str(SAge), "multiple_choice", Options(<<SRed, SBlank>>)),
     FieldBody(Str(SAge), "multiple_choice", Options(<<SRed, NumberOption>>))}

\* malformed, unknown, and every id handed out so far
TableIdInputs == (-1)..(nextTableId - 1)
FieldIdInputs == (-1)..(nextFieldId - 1)
EntryIdInputs == (-1)..(nextEntryId - 1)

\* data maps of entry requests over the keys Age, Zip and __proto__
ApiDataMaps ==
    {<<>>,
     SAge :> Str(S42),
     SAge :> Str(SAbc),
     SZip :> Str(S42),
     (SAge :> Str(S42)) @@ (SZip :> Str(SAbc)),
     SProto :> Null,
     (SAge :> Str(S42)) @@ (SProto :> Null)}

DataInputs == {NotAnObject} \cup {DataObject(m) : m \in ApiDataMaps}

NoBody == FieldBody(Undefined, "", NoOptions)

\* one request for each handler
TableCreateRequest ==
    \E name \in TableNameInputs :
        Receive(Request("tableCreate", -1, -1, FieldBody(name, "", NoOptions), NotAnObject))
TableDeleteRequest ==
    \E tid \in TableIdInputs :
        Receive(Request("tableDelete", tid, -1, NoBody, NotAnObject))
FieldPostRequest ==
    \E tid \in TableIdInputs, body \in FieldBodyInputs :
        Receive(Request("fieldPost", tid, -1, body, NotAnObject))
FieldPutRequest ==
    \E tid \in TableIdInputs, fieldId \in FieldIdInputs, body \in FieldBodyInputs :
        Receive(Request("fieldPut", tid, fieldId, body, NotAnObject))
FieldDeleteRequest ==
    \E tid \in TableIdInputs, fieldId \in FieldIdInputs :
        Receive(Request("fieldDelete", tid, fieldId, NoBody, NotAnObject))
EntryPostRequest ==
    \E tid \in TableIdInputs, data \in DataInputs :
        Receive(Request("entryPost", tid, -1, NoBody, data))
EntryPutRequest ==
    \E tid \in TableIdInputs, entryId \in EntryIdInputs, data \in DataInputs :
        Receive(Request("entryPut", tid, entryId, NoBody, data))
EntryDeleteRequest ==
    \E tid \in TableIdInputs, entryId \in EntryIdInputs :
        Receive(Request("entryDelete", tid, entryId, NoBody, NotAnObject))

----------------------------------------------------------------------------
(* Specifications.  Each runs the handlers of one resource from a state    *)
(* the store can be in.                                                    *)

\* tables and their entries, from the empty store
TablesInit == ApiInit /\ VIdle /\ UIdle

TablesNext ==
    \/ TableCreateRequest
    \/ TableCreate
    \/ TableDeleteRequest
    \/ TableDeleteBegin
    \/ TableDeleteFind
    \/ TableDeleteEntries
    \/ TableDeleteCommit
    \/ TableDeleteFail
    \/ EntryPostRequest
    \/ EntryPost
    \/ EntryDeleteRequest
    \/ EntryDelete
    \/ ConnectFails

SpecTables == TablesInit /\ [][TablesNext]_vars

\* the fields of a table, from a store holding the table without fields
FieldsInit ==
    /\ tables = (1 :> [name |-> STab, fields |-> <<>>])
    /\ entries = <<>>
    /\ nextTableId = 2
    /\ nextFieldId = 1
    /\ nextEntryId = 1
    /\ conn = "none"
    /\ cur = NoRequest
    /\ calls = <<>>
    /\ tx = NoTx
    /\ resp = NoResponse
    /\ VIdle
    /\ UIdle

FieldsNext ==
    \/ FieldPostRequest
    \/ FieldPost
    \/ FieldPutRequest
    \/ FieldPut
    \/ FieldDeleteRequest
    \/ FieldDelete
    \/ ConnectFails

SpecFields == FieldsInit /\ [][FieldsNext]_vars

\* the entries of two tables whose fields are in place
EntriesInit ==
    /\ tables = (1 :> [name |-> STab,
                       fields |-> <<[id |-> 1, name |-> SAge, type |-> "number",
                                     options |-> Options(<<>>)],
                                    [id |-> 2, name |-> SZip, type |-> "multiple_choice",
                                     options |-> Options(<<SAbc>>)]>>])
                @@ (2 :> [name |-> STabQ,
                          fields |-> <<[id |-> 3, name |-> SAge, type |-> "website",
                                        options |-> Options(<<>>)],
                                       [id |-> 4, name |-> SProto, type |-> "text",
                                        options |-> Options(<<>>)]>>])
    /\ entries = <<>>
    /\ nextTableId = 3
    /\ nextFieldId = 5
    /\ nextEntryId = 1
    /\ conn = "none"
    /\ cur = NoRequest
    /\ calls = <<>>
    /\ tx = NoTx
    /\ resp = NoResponse
    /\ VIdle
    /\ UIdle

EntriesNext ==
    \/ EntryPostRequest
    \/ EntryPost
    \/ EntryPutRequest
    \/ EntryPut
    \/ EntryDeleteRequest
    \/ EntryDelete
    \/ ConnectFails

SpecEntries == EntriesInit /\ [][EntriesNext]_vars

----------------------------------------------------------------------------
(* The editable grid of EntryManager: cell editing, keyboard navigation    *)
(* and the saving of an edited cell.  Row and column indexes start at 0    *)
(* as in the source.                                                       *)

\* rows and columns of the grid
GridRows == 2
GridCols == 2

\* the fields prop: the first GridCols of these
GridFieldDefs ==
    <<[id |-> 1, name |-> <<"M", "a", "i", "l">>, type |-> "email",
       options |-> Options(<<>>)],
      [id |-> 2, name |-> SZip, type |-> "multiple_choice",
       options |-> Options(<<SAbc>>)],
      [id |-> 3, name |-> SAge, type |-> "number", options |-> Options(<<>>)]>>

gFields == SubSeq(GridFieldDefs, 1, IF GridCols < 3 THEN GridCols ELSE 3)

\* what the user can type into the input of a field: an <input type="number">
\* hands over digits or the empty string only
TypedValues(field) ==
    IF field.type = "number" THEN {SEmpty, S42} ELSE {SEmpty, SAbc, SMail}

DigitChar == <<"0", "1", "2", "3", "4", "5", "6", "7", "8", "9">>

RECURSIVE NumberToString(_)
\* String(n) of a natural number
NumberToString(n) ==
    IF n < 10 THEN <<DigitChar[n + 1]>>
    ELSE NumberToString(n \div 10) \o <<DigitChar[(n % 10) + 1]>>

\* String(value) of a stored value
String(value) ==
    CASE value.k = "str" -> value.s
      [] value.k = "num" -> NumberToString(value.n)
      [] OTHER           -> <<>>

\* { ...obj, [key]: value }: a computed key of an object literal is an own
\* property whatever its name
SpreadWith(obj, key, value) == (key :> value) @@ obj

\* entries.find(e => e._id === id): the indexes (from 1) of the matches
EntryIndexes(id) == {i \in 1..Len(gEntries) : gEntries[i].id = id}
FieldIndexes(id) == {i \in 1..Len(gFields) : gFields[i].id = id}

\* the checks of saveEditedCell on the edit value, NoError when they pass
clientValidationError(field, value) ==
    IF field.type = "email" /\ value # <<>> /\ ~emailRegex(value)
    THEN "Must be a valid email address"
    ELSE IF field.type = "number" /\ value # <<>> /\ ToNumber(Str(value)).nan
    THEN "Must be a valid number"
    ELSE IF field.type = "time" /\ value # <<>> /\ ~timeRegex(value)
    THEN "Must be in format HH:MM (24-hour)"
    ELSE NoError

\* the PUT request of a save: the cell and value it was invoked for and the
\* body's data
Save(cell, value, data) == [cell |-> cell, value |-> value, data |-> data]

\* startEditing(entry, field, rowIndex, colIndex)
startEditing(entry, field, rowIndex, colIndex) ==
    LET value == GetProp(entry.data, field.name) IN
    /\ editingCell' = Cell(entry.id, field.id, rowIndex, colIndex)
    /\ editValue' = IF value.k \in {"null", "undefined"} THEN <<>> ELSE String(value)

\* cancelEditing() that leaves the edit value in place
cancelEditingKeepsValue ==
    /\ editingCell' = NoCell
    /\ editValue' = editValue
    /\ updateError' = NoError

\* cancelEditing()
cancelEditing ==
    /\ editingCell' = NoCell
    /\ editValue' = <<>>
    /\ updateError' = NoError

\* saveEditedCell() up to its fetch: the state it sets and the request it
\* sends
saveEditedCell ==
    IF editingCell = NoCell
    THEN UNCHANGED <<updating, updateError, saves>>
    ELSE IF EntryIndexes(editingCell.entryId) = {}
    THEN /\ updateError' = "Entry not found"
         /\ updating' = FALSE
         /\ UNCHANGED saves
    ELSE IF FieldIndexes(editingCell.fieldId) = {}
    THEN /\ updateError' = "Field not found"
         /\ updating' = FALSE
         /\ UNCHANGED saves
    ELSE
        LET entry == gEntries[CHOOSE i \in EntryIndexes(editingCell.entryId) :
                                 \A j \in EntryIndexes(editingCell.entryId) : i <= j]
            field == gFields[CHOOSE i \in FieldIndexes(editingCell.fieldId) : TRUE]
            validationError == clientValidationError(field, editValue)
        IN  IF validationError # NoError
            THEN /\ updateError' = validationError
                 /\ updating' = FALSE
                 /\ UNCHANGED saves
            ELSE /\ updateError' = NoError
                 /\ updating' = TRUE
                 /\ saves' = saves \cup
                        {Save(editingCell, editValue,
                              SpreadWith(entry.data, field.name, Str(editValue)))}

\* navigateToCell(rowIndex, colIndex) that wraps around the grid
navigateToCellWraps(rowIndex, colIndex) ==
    LET r == rowIndex % Len(gEntries)
        c == colIndex % Len(gFields)
    IN  startEditing(gEntries[r + 1], gFields[c + 1], r, c)

\* navigateToCell(rowIndex, colIndex)
navigateToCell(rowIndex, colIndex) ==
    IF rowIndex < 0 \/ rowIndex >= Len(gEntries) \/ colIndex < 0
       \/ colIndex >= Len(gFields)
    THEN UNCHANGED <<editingCell, editValue>>
    ELSE startEditing(gEntries[rowIndex + 1], gFields[colIndex + 1], rowIndex, colIndex)

\* the input is rendered for the cell being edited and is disabled while a
\* save is running: only then does it receive keys, changes and blur
InputEnabled == editingCell # NoCell /\ ~updating

\* selectionStart / selectionEnd of the input: null (-1) unless the input
\* is a text input, else the start, the end or a place in between
CursorPositions ==
    LET types == {gFields[i].type : i \in FieldIndexes(editingCell.fieldId)} IN
    IF types \subseteq {"number", "email", "time", "date"}
    THEN {-1}
    ELSE {0, Len(editValue)} \cup {n \in {1} : n < Len(editValue)}

NavigationKeys == {"Enter", "Tab", "ArrowUp", "ArrowDown", "ArrowLeft", "ArrowRight"}

\* the cell navigateToCell is called with for a key pressed in cell
TargetRow(key, shiftKey, cell) ==
    CASE key = "Enter"     -> IF shiftKey THEN cell.rowIndex - 1 ELSE cell.rowIndex + 1
      [] key = "ArrowUp"   -> cell.rowIndex - 1
      [] key = "ArrowDown" -> cell.rowIndex + 1
      [] OTHER             -> cell.rowIndex

TargetCol(key, shiftKey, cell) ==
    CASE key = "Tab"        -> IF shiftKey THEN cell.colIndex - 1 ELSE cell.colIndex + 1
      [] key = "ArrowLeft"  -> cell.colIndex - 1
      [] key = "ArrowRight" -> cell.colIndex + 1
      [] OTHER              -> cell.colIndex

\* onClick of a cell that is not being edited
ClickCell(rowIndex, colIndex) ==
    /\ ~updating
    /\ rowIndex \in 0..(Len(gEntries) - 1)
    /\ colIndex \in 0..(Len(gFields) - 1)
    /\ ~(/\ editingCell.entryId = gEntries[rowIndex + 1].id
         /\ editingCell.fieldId = gFields[colIndex + 1].id)
    /\ startEditing(gEntries[rowIndex + 1], gFields[colIndex + 1], rowIndex, colIndex)
    /\ event' = Event("click", "", FALSE,
                      Cell(gEntries[rowIndex + 1].id, gFields[colIndex + 1].id,
                           rowIndex, colIndex))
    /\ UNCHANGED <<gEntries, updating, updateError, saves>>
    /\ UNCHANGED <<avars, vvars, cvars, rvars, dvars>>

\* onChange of the input: setEditValue(e.target.value)
ChangeValue(value) ==
    /\ InputEnabled
    /\ \E i \in FieldIndexes(editingCell.fieldId) : value \in TypedValues(gFields[i])
    /\ editValue' = value
    /\ event' = Event("change", "", FALSE, editingCell)
    /\ UNCHANGED <<gEntries, editingCell, updating, updateError, saves>>
    /\ UNCHANGED <<avars, vvars, cvars, rvars, dvars>>

\* handleKeyDown(e), with the input's cursor at selection
handleKeyDown(key, shiftKey, selection) ==
    /\ InputEnabled
    /\ selection \in CursorPositions
    /\ event' = Event("keydown", key, shiftKey, editingCell)
    /\ CASE key \in {"Enter", "Tab", "ArrowUp", "ArrowDown"} ->
                /\ saveEditedCell
                /\ navigateToCell(TargetRow(key, shiftKey, editingCell),
                                  TargetCol(key, shiftKey, editingCell))
         [] key = "Escape" ->
                /\ cancelEditing
                /\ UNCHANGED <<updating, saves>>
         [] key = "ArrowLeft" /\ selection = 0 ->
                /\ saveEditedCell
                /\ navigateToCell(editingCell.rowIndex, editingCell.colIndex - 1)
         [] key = "ArrowRight" /\ selection = Len(editValue) ->
                /\ saveEditedCell
                /\ navigateToCell(editingCell.rowIndex, editingCell.colIndex + 1)
         [] OTHER ->
                UNCHANGED <<editingCell, editValue, updating, updateError, saves>>
    /\ UNCHANGED gEntries
    /\ UNCHANGED <<avars, vvars, cvars, rvars, dvars>>

\* onBlur of the input
Blur ==
    /\ InputEnabled
    /\ event' = Event("blur", "", FALSE, editingCell)
    /\ saveEditedCell
    /\ UNCHANGED <<gEntries, editingCell, editValue>>
    /\ UNCHANGED <<avars, vvars, cvars, rvars, dvars>>

\* handleEntryUpdated(updatedEntry) of the page
handleEntryUpdated(updatedEntry) ==
    [i \in 1..Len(gEntries) |->
        IF gEntries[i].id = updatedEntry.id THEN updatedEntry ELSE gEntries[i]]

\* the fetch of a save resolves with success: the server accepted the data
\* and answers with the entry it stored
SaveSucceeds(s) ==
    /\ s \in saves
    /\ validateData(s.data, gFields).isValid
    /\ gEntries' = handleEntryUpdated([id |-> s.cell.entryId,
                                       data |-> validateData(s.data, gFields).validatedData])
    /\ editingCell' = NoCell
    /\ editValue' = <<>>
    /\ updating' = FALSE
    /\ saves' = saves \ {s}
    /\ event' = Event("resolved", "", FALSE, s.cell)
    /\ UNCHANGED updateError
    /\ UNCHANGED <<avars, vvars, cvars, rvars, dvars>>

\* the fetch of a save fails or resolves without success
SaveFails(s) ==
    /\ s \in saves
    /\ updateError' = "Failed to update entry"
    /\ updating' = FALSE
    /\ saves' = saves \ {s}
    /\ event' = Event("rejected", "", FALSE, s.cell)
    /\ UNCHANGED <<gEntries, editingCell, editValue>>
    /\ UNCHANGED <<avars, vvars, cvars, rvars, dvars>>

\* the rows the page hands to the grid: every value null but one choice
GridInit ==
    /\ ApiInit
    /\ VIdle
    /\ gEntries = [i \in 1..GridRows |->
                     [id |-> i,
                      data |-> validateData(IF i = 1 THEN SZip :> Str(SAbc) ELSE <<>>,
                                            gFields).validatedData]]
    /\ editingCell = NoCell
    /\ editValue = <<>>
    /\ updating = FALSE
    /\ updateError = NoError
    /\ saves = {}
    /\ event = NoEvent
    /\ RIdle
    /\ DIdle
    /\ CIdle

\* the keys pressed: the keys handleKeyDown tests for, with Shift for the
\* two keys whose branch reads shiftKey
KeyInputs ==
    {<<key, FALSE>> : key \in NavigationKeys \cup {"Escape"}}
        \cup {<<"Enter", TRUE>>, <<"Tab", TRUE>>}

GridNext ==
    \/ \E r \in 0..(GridRows - 1), c \in 0..(GridCols - 1) : ClickCell(r, c)
    \/ \E v \in {SEmpty, S42, SAbc, SMail} : ChangeValue(v)
    \/ \E k \in KeyInputs, selection \in (-1)..5 : handleKeyDown(k[1], k[2], selection)
    \/ Blur
    \/ \E s \in saves : SaveSucceeds(s)
    \/ \E s \in saves : SaveFails(s)

SpecGrid == GridInit /\ [][GridNext]_vars

----------------------------------------------------------------------------
(* Row selection and deletion in EntryManager.                             *)

\* handleBulkDelete calls that can be waiting for their deletes at once,
\* and DELETE requests that can be unsettled at once
MaxBulks == 1
MaxDeletes == 3

\* the ids of the rows displayed
DisplayedIds == {gEntries[i].id : i \in 1..Len(gEntries)}

\* the modal of showDeleteConfirm covers the page: the rows and the toolbar
\* take clicks only while it is closed
PageEnabled == showDeleteConfirm = 0

\* the handleDeleteEntry(entryId) call and its DELETE request: selected is
\* the selectedRows of the render that made the call, bulk the
\* handleBulkDelete call whose Promise.all holds it (0: the modal's Delete
\* button), state "pending" until the call has finished, then "ok" or
\* "failed" for as long as Promise.all waits for the others
Delete(entryId, selected, bulk) ==
    [entryId |-> entryId, selected |-> selected, bulk |-> bulk, state |-> "pending"]

Pending == {d \in deletes : d.state = "pending"}

\* deletes once the call d has finished with state
Settle(d, state) ==
    IF d.bulk = 0 THEN deletes \ {d}
    ELSE IF \A o \in Pending \ {d} : o.bulk # d.bulk
    THEN {o \in deletes : o.bulk # d.bulk}
    ELSE (deletes \ {d}) \cup {[d EXCEPT !.state = state]}

\* handleEntryDeleted(entryId) of the page
handleEntryDeleted(entryId) == SelectSeq(gEntries, LAMBDA e : e.id # entryId)

\* handleRowSelect(entryId, isSelected), from the row's checkbox
handleRowSelect(entryId, isSelected) ==
    /\ PageEnabled
    /\ entryId \in DisplayedIds
    /\ isSelected = (entryId \notin selectedRows)
    /\ selectedRows' = IF isSelected THEN selectedRows \cup {entryId}
                       ELSE selectedRows \ {entryId}
    /\ UNCHANGED <<deletes, error, deleteError, deleting, showDeleteConfirm>>
    /\ UNCHANGED <<avars, vvars, cvars, gvars, dvars>>

\* handleSelectAll(isSelected), from the header's checkbox
handleSelectAll(isSelected) ==
    /\ PageEnabled
    /\ Len(gEntries) > 0
    /\ isSelected = ~(Cardinality(selectedRows) = Len(gEntries))
    /\ selectedRows' = IF isSelected THEN DisplayedIds ELSE {}
    /\ UNCHANGED <<deletes, error, deleteError, deleting, showDeleteConfirm>>
    /\ UNCHANGED <<avars, vvars, cvars, gvars, dvars>>

\* the row's delete button: setShowDeleteConfirm(entry._id)
AskDelete(entryId) ==
    /\ PageEnabled
    /\ entryId \in DisplayedIds
    /\ showDeleteConfirm' = entryId
    /\ UNCHANGED <<selectedRows, deletes, error, deleteError, deleting>>
    /\ UNCHANGED <<avars, vvars, cvars, gvars, dvars>>

\* the modal's Cancel button
CancelDelete ==
    /\ showDeleteConfirm # 0
    /\ deleting = 0
    /\ showDeleteConfirm' = 0
    /\ UNCHANGED <<selectedRows, deletes, error, deleteError, deleting>>
    /\ UNCHANGED <<avars, vvars, cvars, gvars, dvars>>

\* the modal's Delete button: handleDeleteEntry(showDeleteConfirm) up to
\* its fetch
ConfirmDelete ==
    /\ showDeleteConfirm # 0
    /\ deleting = 0
    /\ deleting' = showDeleteConfirm
    /\ deleteError' = NoError
    /\ deletes' = deletes \cup {Delete(showDeleteConfirm, selectedRows, 0)}
    /\ Cardinality(deletes') <= MaxDeletes
    /\ UNCHANGED <<selectedRows, error, showDeleteConfirm>>
    /\ UNCHANGED <<avars, vvars, cvars, gvars, dvars>>

\* the handleBulkDelete calls still awaiting a delete
ActiveBulks == {d.bulk : d \in deletes} \ {0}

\* handleBulkDelete() up to its await, confirmed by the user: one
\* handleDeleteEntry call per selected row, each up to its fetch
handleBulkDelete ==
    /\ PageEnabled
    /\ selectedRows # {}
    /\ \E b \in (1..MaxBulks) \ ActiveBulks :
        /\ \A c \in (1..MaxBulks) \ ActiveBulks : b <= c
        /\ deletes' = deletes \cup {Delete(id, selectedRows, b) : id \in selectedRows}
    /\ Cardinality(deletes') <= MaxDeletes
    /\ deleting' \in selectedRows
    /\ deleteError' = NoError
    /\ UNCHANGED <<selectedRows, error, showDeleteConfirm>>
    /\ UNCHANGED <<avars, vvars, cvars, gvars, dvars>>

\* d is the last delete its handleBulkDelete call awaits
LastOfBulk(d) == d.bulk # 0 /\ \A o \in Pending \ {d} : o.bulk # d.bulk

\* the DELETE of d is answered with success: the rest of handleDeleteEntry
\* and, when Promise.all settles with it, the rest of handleBulkDelete
DeleteSucceeds(d) ==
    /\ d \in Pending
    /\ d.entryId \in DisplayedIds
    /\ gEntries' = handleEntryDeleted(d.entryId)
    /\ showDeleteConfirm' = 0
    /\ selectedRows' = IF LastOfBulk(d) THEN {}
                       ELSE IF d.entryId \in d.selected THEN d.selected \ {d.entryId}
                       ELSE selectedRows
    /\ deleting' = 0
    /\ deletes' = Settle(d, "ok")
    /\ UNCHANGED <<error, deleteError>>
    /\ UNCHANGED <<editingCell, editValue, updating, updateError, saves, event>>
    /\ UNCHANGED <<avars, vvars, cvars, dvars>>

\* the DELETE of d fails or is answered without success: the catch of
\* handleDeleteEntry, which does not rethrow, and the rest of
\* handleBulkDelete when Promise.all settles with it
DeleteFails(d) ==
    /\ d \in Pending
    /\ deleteError' = "Failed to delete entry"
    /\ deleting' = 0
    /\ selectedRows' = IF LastOfBulk(d) THEN {} ELSE selectedRows
    /\ deletes' = Settle(d, "failed")
    /\ UNCHANGED <<error, showDeleteConfirm>>
    /\ UNCHANGED <<avars, vvars, cvars, gvars, dvars>>

RowsNext ==
    \/ \E id \in 1..GridRows, isSelected \in BOOLEAN : handleRowSelect(id, isSelected)
    \/ \E isSelected \in BOOLEAN : handleSelectAll(isSelected)
    \/ \E id \in 1..GridRows : AskDelete(id)
    \/ CancelDelete
    \/ ConfirmDelete
    \/ handleBulkDelete
    \/ \E d \in deletes : DeleteSucceeds(d)
    \/ \E d \in deletes : DeleteFails(d)

\* the grid of GridInit with its rows, nothing being edited
SpecRows == GridInit /\ [][RowsNext]_vars

----------------------------------------------------------------------------
(* Drag selection in EntryManager: the mouse handlers of the cells.        *)

\* the cell (rowIndex, colIndex) is a cell of the grid
InGrid(rowIndex, colIndex) ==
    /\ rowIndex \in 0..(Len(gEntries) - 1)
    /\ colIndex \in 0..(Len(gFields) - 1)

\* the CellPosition of the cell at (rowIndex, colIndex)
CellAt(rowIndex, colIndex) ==
    Cell(gEntries[rowIndex + 1].id, gFields[colIndex + 1].id, rowIndex, colIndex)

\* handleMouseDown that does not look at editingCell
handleMouseDownWhileEditing(cell) ==
    /\ isDragging' = TRUE
    /\ dragStart' = cell
    /\ dragEnd' = cell

\* handleMouseDown(rowIndex, colIndex, entryId, fieldId)
handleMouseDown(cell) ==
    IF editingCell # NoCell
    THEN UNCHANGED <<isDragging, dragStart, dragEnd>>
    ELSE /\ isDragging' = TRUE
         /\ dragStart' = cell
         /\ dragEnd' = cell

\* handleMouseUp()
handleMouseUp ==
    IF ~isDragging \/ dragStart = NoCell \/ dragEnd = NoCell
    THEN /\ isDragging' = FALSE
         /\ UNCHANGED <<dragStart, dragEnd>>
    ELSE /\ isDragging' = FALSE
         /\ dragStart' = NoCell
         /\ dragEnd' = NoCell

\* the mouse button goes down on the cell at (rowIndex, colIndex)
MouseDown(rowIndex, colIndex) ==
    /\ mouse = NoCell
    /\ InGrid(rowIndex, colIndex)
    /\ mouse' = CellAt(rowIndex, colIndex)
    /\ handleMouseDown(CellAt(rowIndex, colIndex))
    /\ UNCHANGED <<avars, vvars, cvars, gvars, rvars>>

\* the mouse moves over the cell at (rowIndex, colIndex), button down or
\* up: handleMouseMove(rowIndex, colIndex, entryId, fieldId)
MouseMove(rowIndex, colIndex) ==
    /\ InGrid(rowIndex, colIndex)
    /\ isDragging
    /\ dragStart # NoCell
    /\ dragEnd' = CellAt(rowIndex, colIndex)
    /\ UNCHANGED <<isDragging, dragStart, mouse>>
    /\ UNCHANGED <<avars, vvars, cvars, gvars, rvars>>

\* the mouse button goes up over the cell at (rowIndex, colIndex): the
\* mouseup bubbles to the spreadsheet's handleMouseUp and, when the button
\* went down on the same cell, the browser then sends the cell its click
MouseUp(rowIndex, colIndex) ==
    /\ InGrid(rowIndex, colIndex)
    /\ mouse' = NoCell
    /\ handleMouseUp
    /\ IF /\ mouse = CellAt(rowIndex, colIndex)
          /\ ~updating
          /\ ~(/\ editingCell.entryId = gEntries[rowIndex + 1].id
               /\ editingCell.fieldId = gFields[colIndex + 1].id)
       THEN /\ startEditing(gEntries[rowIndex + 1], gFields[colIndex + 1],
                            rowIndex, colIndex)
            /\ event' = Event("click", "", FALSE, CellAt(rowIndex, colIndex))
       ELSE UNCHANGED <<editingCell, editValue, event>>
    /\ UNCHANGED <<gEntries, updating, updateError, saves>>
    /\ UNCHANGED <<avars, vvars, cvars, rvars>>

\* the mouse button goes up outside the spreadsheet: no handler runs
MouseUpOutside ==
    /\ mouse # NoCell
    /\ mouse' = NoCell
    /\ UNCHANGED <<isDragging, dragStart, dragEnd>>
    /\ UNCHANGED <<avars, vvars, cvars, gvars, rvars>>

Cells == (0..(GridRows - 1)) \X (0..(GridCols - 1))

DragNext ==
    \/ \E rc \in Cells : MouseDown(rc[1], rc[2])
    \/ \E rc \in Cells : MouseMove(rc[1], rc[2])
    \/ \E rc \in Cells : MouseUp(rc[1], rc[2])
    \/ MouseUpOutside
    \/ \E k \in KeyInputs, selection \in (-1)..5 : handleKeyDown(k[1], k[2], selection)
    \/ Blur
    \/ \E s \in saves : SaveSucceeds(s)
    \/ \E s \in saves : SaveFails(s)

\* the grid of GridInit under mouse, key and blur events
SpecDrag == GridInit /\ [][DragNext]_vars

----------------------------------------------------------------------------
(* Field changes on a table that holds an entry, and the grid's cell save  *)
(* against it.                                                             *)

\* what a cell save can carry
CellValues == {SEmpty, S42, SAbc, SRed}

\* value is empty or passes the check of the field's type
ValidFor(field, value) == value = <<>> \/ CheckField(field, Str(value)).ok

\* data is the entry's stored data with the cell of one field of the table
\* set to a value valid for the field: the body of saveEditedCell's PUT
IsCellSave(entry, fields, data) ==
    \E i \in 1..Len(fields), value \in CellValues :
        /\ ValidFor(fields[i], value)
        /\ data = SpreadWith(entry.data, fields[i].name, Str(value))

\* the PUT of saveEditedCell for an entry as the store holds it
CellSaveRequest ==
    \E entryId \in DOMAIN entries :
        LET entry == entries[entryId] IN
        /\ entry.tableId \in DOMAIN tables
        /\ \E i \in 1..Len(tables[entry.tableId].fields), value \in CellValues :
            LET field == tables[entry.tableId].fields[i] IN
            /\ ValidFor(field, value)
            /\ Receive(Request("entryPut", entry.tableId, entryId, NoBody,
                               DataObject(SpreadWith(entry.data, field.name, Str(value)))))

\* a table with one field and an entry holding a value for it
SchemaInit ==
    /\ tables = (1 :> [name |-> STab,
                       fields |-> <<[id |-> 1, name |-> SAge, type |-> "number",
                                     options |-> Options(<<>>)]>>])
    /\ entries = (1 :> [tableId |-> 1, data |-> (SAge :> Num(42))])
    /\ nextTableId = 2
    /\ nextFieldId = 2
    /\ nextEntryId = 2
    /\ conn = "none"
    /\ cur = NoRequest
    /\ calls = <<>>
    /\ tx = NoTx
    /\ resp = NoResponse
    /\ VIdle
    /\ UIdle

SchemaNext ==
    \/ FieldPostRequest
    \/ FieldPost
    \/ FieldPutRequest
    \/ FieldPut
    \/ FieldDeleteRequest
    \/ FieldDelete
    \/ CellSaveRequest
    \/ EntryPut
    \/ ConnectFails

SpecSchema == SchemaInit /\ [][SchemaNext]_vars

----------------------------------------------------------------------------
(* dbConnect called by several requests of one server process.  The        *)
(* function runs up to its await in one piece.  When the promise it waits  *)
(* on settles, the continuations of all calls waiting on that promise are  *)
(* queued as microtasks together, and the microtask queue is emptied       *)
(* before the next request or socket event is taken up.                    *)

NCallers    == 3
MaxAttempts == 3

Callers == 1..NCallers

\* a call of dbConnect: where it stands, the attempt whose promise it
\* awaits (0 for none) and the connection it returned (0 for none)
Caller(pc, awaiting, result) == [pc |-> pc, awaiting |-> awaiting, result |-> result]

\* mongoose.connect calls whose promise has not settled
InFlightAttempts == {n \in DOMAIN attempts : attempts[n] = "pending"}

\* no continuation of an await is waiting in the microtask queue
Drained == \A p \in DOMAIN procs : procs[p].pc # "queued"

\* the calls awaiting the promise of attempt n take their turn
QueueWaiters(n) ==
    [p \in DOMAIN procs |->
        IF procs[p].pc = "awaiting" /\ procs[p].awaiting = n
        THEN [procs[p] EXCEPT !.pc = "queued"]
        ELSE procs[p]]

\* a call that starts an attempt whatever the cache holds
NoPromiseCheck == TRUE

\* if (!cached.promise)
NoPromise == cached.promise = 0

\* dbConnect() up to its await: the cached connection is returned at once;
\* without a cached promise mongoose.connect is called and its promise
\* cached; the call then awaits the cached promise
dbConnectCall(p) ==
    /\ procs[p].pc = "idle"
    /\ Drained
    /\ IF cached.conn # 0
       THEN /\ procs' = [procs EXCEPT ![p] = Caller("returned", 0, cached.conn)]
            /\ UNCHANGED <<cached, attempts>>
       ELSE IF NoPromise
       THEN /\ Len(attempts) < MaxAttempts
            /\ attempts' = Append(attempts, "pending")
            /\ cached' = [cached EXCEPT !.promise = Len(attempts) + 1]
            /\ procs' = [procs EXCEPT ![p] = Caller("awaiting", Len(attempts) + 1, 0)]
       ELSE /\ procs' = [procs EXCEPT ![p] = Caller("awaiting", cached.promise, 0)]
            /\ UNCHANGED <<cached, attempts>>
    /\ UNCHANGED <<avars, vvars, gvars, rvars, dvars>>

\* mongoose.connect resolves: .then(m => m) hands the instance on
ConnectResolves(n) ==
    /\ n \in InFlightAttempts
    /\ Drained
    /\ attempts' = [attempts EXCEPT ![n] = "resolved"]
    /\ procs' = QueueWaiters(n)
    /\ UNCHANGED <<cached, avars, vvars, gvars, rvars, dvars>>

\* mongoose.connect rejects: .catch(err => { promise = null; throw err })
ConnectRejects(n) ==
    /\ n \in InFlightAttempts
    /\ Drained
    /\ attempts' = [attempts EXCEPT ![n] = "rejected"]
    /\ cached' = [cached EXCEPT !.promise = 0]
    /\ procs' = QueueWaiters(n)
    /\ UNCHANGED <<avars, vvars, gvars, rvars, dvars>>

\* dbConnect() after its await: cached.conn = await cached.promise and
\* return cached.conn, or catch (e) { promise = null; throw e }
dbConnectResume(p) ==
    /\ procs[p].pc = "queued"
    /\ IF attempts[procs[p].awaiting] = "resolved"
       THEN /\ cached' = [cached EXCEPT !.conn = procs[p].awaiting]
            /\ procs' = [procs EXCEPT ![p] = Caller("returned", procs[p].awaiting,
                                                     procs[p].awaiting)]
       ELSE /\ cached' = [cached EXCEPT !.promise = 0]
            /\ procs' = [procs EXCEPT ![p].pc = "threw"]
    /\ UNCHANGED <<attempts, avars, vvars, gvars, rvars, dvars>>

\* the request of the call is over; the caller may send another one
NextRequest(p) ==
    /\ procs[p].pc \in {"returned", "threw"}
    /\ procs' = [procs EXCEPT ![p] = Caller("idle", 0, 0)]
    /\ UNCHANGED <<cached, attempts, avars, vvars, gvars, rvars, dvars>>

ConnectInit ==
    /\ ApiInit
    /\ VIdle
    /\ GIdle
    /\ RIdle
    /\ DIdle
    /\ procs = [p \in Callers |-> Caller("idle", 0, 0)]
    /\ cached = [conn |-> 0, promise |-> 0]
    /\ attempts = <<>>

ConnectNext ==
    \/ \E p \in Callers : dbConnectCall(p)
    \/ \E n \in DOMAIN attempts : ConnectResolves(n)
    \/ \E n \in DOMAIN attempts : ConnectRejects(n)
    \/ \E p \in Callers : dbConnectResume(p)
    \/ \E p \in Callers : NextRequest(p)

SpecConnect == ConnectInit /\ [][ConnectNext]_vars

----------------------------------------------------------------------------
(* Handlers running side by side.  A handler runs in one piece from one    *)
(* awaited store call to the next; the store calls of different requests   *)
(* are applied in any order.                                               *)

NHandlers == 2

Handlers == 1..NHandlers

\* a handler: where it stands, its request, the table document it loaded
\* (its fields), the writes its transaction holds back, and the status of
\* its response (0 while it runs)
Handler(pc, req, fields, delTables, delEntries, status) ==
    [pc |-> pc, req |-> req, fields |-> fields, delTables |-> delTables,
     delEntries |-> delEntries, status |-> status]

NoHandler == Handler("idle", NoRequest, <<>>, {}, {}, 0)

\* return NextResponse.json(..., { status })
Respond(p, status) ==
    procs' = [procs EXCEPT ![p].pc = "done", ![p].status = status]

\* the handler goes on to its next awaited call
Goto(p, pc) == procs' = [procs EXCEPT ![p].pc = pc]

SZipLc == <<"z", "i", "p", " ">>

\* requests whose names are equal once trimmed, ignoring case
RaceRequests ==
    {Request("tableCreate", -1, -1, FieldBody(Str(name), "", NoOptions), NotAnObject) :
        name \in {STab, STabLc}}
    \cup {Request("tableDelete", 1, -1, NoBody, NotAnObject)}
    \cup {Request("fieldPost", 1, -1, FieldBody(Str(name), type, NoOptions), NotAnObject) :
        name \in {SZip, SZipLc}, type \in {"text", "number"}}
    \cup {Request("entryPost", 1, -1, NoBody, DataObject(map)) :
        map \in {<<>>, SAge :> Str(S42)}}

\* the server takes up a request while others are being handled
RaceReceive(p, request) ==
    /\ procs[p].pc = "idle"
    /\ procs' = [procs EXCEPT ![p] = [NoHandler EXCEPT !.pc = "start", !.req = request]]
    /\ UNCHANGED <<cached, attempts, avars, vvars, gvars, rvars, dvars>>

\* POST /api/tables up to await Table.findOne({ name: { $regex, $options } })
RaceTableFindOne(p) ==
    /\ procs[p].pc = "start"
    /\ procs[p].req.op = "tableCreate"
    /\ IF BadName(procs[p].req.body.name)
       THEN Respond(p, 400)
       ELSE IF \E t \in DOMAIN tables :
                  regexMatch(trim(procs[p].req.body.name.s), tables[t].name)
       THEN Respond(p, 409)
       ELSE Goto(p, "checked")
    /\ UNCHANGED <<cached, attempts, avars, vvars, gvars, rvars, dvars>>

\* await Table.create({ name: trimmedName }): the unique index on name
\* compares the stored strings as they are
RaceTableCreate(p) ==
    /\ procs[p].pc = "checked"
    /\ procs[p].req.op = "tableCreate"
    /\ LET trimmedName == trim(procs[p].req.body.name.s) IN
       IF \E t \in DOMAIN tables : tables[t].name = trimmedName
       THEN /\ Respond(p, 500)
            /\ UNCHANGED <<tables, nextTableId>>
       ELSE /\ tables' = (nextTableId :> [name |-> trimmedName, fields |-> <<>>])
                             @@ tables
            /\ nextTableId' = nextTableId + 1
            /\ Respond(p, 201)
    /\ UNCHANGED <<entries, nextFieldId, nextEntryId, conn, cur, calls, tx, resp,
                   cached, attempts, vvars, gvars, rvars, dvars>>

\* a table document some transaction has deleted and not yet committed
HeldByTransaction(tid) == \E q \in Handlers : tid \in procs[q].delTables

\* POST fields up to await table.save(): the checks of the body, the load
\* of the table, the check of the name against the loaded fields, the push
RaceFieldPush(p) ==
    /\ procs[p].pc = "start"
    /\ procs[p].req.op = "fieldPost"
    /\ LET req == procs[p].req IN
       IF ~IsValidObjectId(req.tableId) \/ BadFieldBody(req.body)
       THEN /\ Respond(p, 400)
            /\ UNCHANGED nextFieldId
       ELSE IF ~TableFound(req.tableId)
       THEN /\ Respond(p, 404)
            /\ UNCHANGED nextFieldId
       ELSE IF fieldNameExists(tables[req.tableId].fields, trim(req.body.name.s), 0)
       THEN /\ Respond(p, 409)
            /\ UNCHANGED nextFieldId
       ELSE /\ procs' = [procs EXCEPT
                           ![p].pc = "pushed",
                           ![p].fields = Append(tables[req.tableId].fields,
                                                NewField(nextFieldId, req.body))]
            /\ nextFieldId' = nextFieldId + 1
    /\ UNCHANGED <<tables, entries, nextTableId, nextEntryId, conn, cur, calls, tx,
                   resp, cached, attempts, vvars, gvars, rvars, dvars>>

\* await table.save(): the loaded document is validated and the pushed
\* subdocument is sent as a $push on the stored array, whatever the array
\* holds by now; the save of a document that is gone throws
RaceFieldSave(p) ==
    /\ procs[p].pc = "pushed"
    /\ LET tid    == procs[p].req.tableId
           loaded == procs[p].fields
       IN
       /\ ~HeldByTransaction(tid)
       /\ IF ~TableSchemaValid(loaded)
          THEN /\ Respond(p, 400)
               /\ UNCHANGED tables
          ELSE IF ~TableFound(tid)
          THEN /\ Respond(p, 500)
               /\ UNCHANGED tables
          ELSE /\ tables' = [tables EXCEPT
                               ![tid].fields = Append(@, loaded[Len(loaded)])]
               /\ Respond(p, 201)
    /\ UNCHANGED <<entries, ids, conn, cur, calls, tx, resp, cached, attempts,
                   vvars, gvars, rvars, dvars>>

\* POST entries up to the end of await Table.findById(tableId)
RaceEntryFind(p) ==
    /\ procs[p].pc = "start"
    /\ procs[p].req.op = "entryPost"
    /\ LET req == procs[p].req IN
       IF ~IsValidObjectId(req.tableId)
       THEN Respond(p, 400)
       ELSE IF ~TableFound(req.tableId)
       THEN Respond(p, 404)
       ELSE procs' = [procs EXCEPT ![p].pc = "loaded",
                                   ![p].fields = tables[req.tableId].fields]
    /\ UNCHANGED <<cached, attempts, avars, vvars, gvars, rvars, dvars>>

\* the body, validateData against the loaded fields, await Entry.create
RaceEntryCreate(p) ==
    /\ procs[p].pc = "loaded"
    /\ LET req == procs[p].req
           v   == validateData(req.data.map, procs[p].fields)
       IN
       IF req.data.k # "object" \/ InvalidData(v)
       THEN /\ Respond(p, 400)
            /\ UNCHANGED <<entries, nextEntryId>>
       ELSE /\ entries' = (nextEntryId :> [tableId |-> req.tableId,
                                           data |-> v.validatedData])
                              @@ entries
            /\ nextEntryId' = nextEntryId + 1
            /\ Respond(p, 201)
    /\ UNCHANGED <<tables, nextTableId, nextFieldId, conn, cur, calls, tx, resp,
                   cached, attempts, vvars, gvars, rvars, dvars>>

\* DELETE table up to the end of await Table.findByIdAndDelete(tableId,
\* { session }): the delete is held back by the transaction
RaceDeleteFind(p) ==
    /\ procs[p].pc = "start"
    /\ procs[p].req.op = "tableDelete"
    /\ LET tid == procs[p].req.tableId IN
       IF ~IsValidObjectId(tid)
       THEN Respond(p, 400)
       ELSE IF ~TableFound(tid) \/ HeldByTransaction(tid)
       THEN Respond(p, 404)
       ELSE procs' = [procs EXCEPT ![p].pc = "tableDeleted", ![p].delTables = {tid}]
    /\ UNCHANGED <<cached, attempts, avars, vvars, gvars, rvars, dvars>>

\* await Entry.deleteMany({ tableId }, { session }): the entries the
\* collection holds when the call runs
RaceDeleteEntries(p) ==
    /\ procs[p].pc = "tableDeleted"
    /\ procs' = [procs EXCEPT
                   ![p].pc = "entriesDeleted",
                   ![p].delEntries = {e \in DOMAIN entries :
                                         entries[e].tableId = procs[p].req.tableId}]
    /\ UNCHANGED <<cached, attempts, avars, vvars, gvars, rvars, dvars>>

\* await session.commitTransaction()
RaceDeleteCommit(p) ==
    /\ procs[p].pc = "entriesDeleted"
    /\ tables' = [t \in DOMAIN tables \ procs[p].delTables |-> tables[t]]
    /\ entries' = [e \in DOMAIN entries \ procs[p].delEntries |-> entries[e]]
    /\ procs' = [procs EXCEPT ![p].pc = "done", ![p].status = 200,
                              ![p].delTables = {}, ![p].delEntries = {}]
    /\ UNCHANGED <<ids, conn, cur, calls, tx, resp, cached, attempts, vvars, gvars,
                   rvars, dvars>>

\* one table with the field Age and one entry; no request received yet
RaceInit ==
    /\ tables = (1 :> [name |-> SAbc,
                       fields |-> <<[id |-> 1, name |-> SAge, type |-> "number",
                                     options |-> Options(<<>>)]>>])
    /\ entries = (1 :> [tableId |-> 1, data |-> (SAge :> Num(42))])
    /\ nextTableId = 2
    /\ nextFieldId = 2
    /\ nextEntryId = 2
    /\ conn = "none"
    /\ cur = NoRequest
    /\ calls = <<>>
    /\ tx = NoTx
    /\ resp = NoResponse
    /\ VIdle
    /\ GIdle
    /\ RIdle
    /\ DIdle
    /\ procs = [p \in Handlers |-> NoHandler]
    /\ cached = [conn |-> 0, promise |-> 0]
    /\ attempts = <<>>

RaceNext ==
    \/ \E p \in Handlers, request \in RaceRequests : RaceReceive(p, request)
    \/ \E p \in Handlers : RaceTableFindOne(p)
    \/ \E p \in Handlers : RaceTableCreate(p)
    \/ \E p \in Handlers : RaceFieldPush(p)
    \/ \E p \in Handlers : RaceFieldSave(p)
    \/ \E p \in Handlers : RaceEntryFind(p)
    \/ \E p \in Handlers : RaceEntryCreate(p)
    \/ \E p \in Handlers : RaceDeleteFind(p)
    \/ \E p \in Handlers : RaceDeleteEntries(p)
    \/ \E p \in Handlers : RaceDeleteCommit(p)

SpecRace == RaceInit /\ [][RaceNext]_vars

----------------------------------------------------------------------------
(* Properties of validateData, checked under SpecValidator.                *)

VFieldIdx == 1..Len(vFields)

\* the value submitted for field i is missing, null or ''
SubmittedEmpty(i) ==
    \/ vFields[i].name \notin DOMAIN vData
    \/ vData[vFields[i].name] = Null
    \/ vData[vFields[i].name] = Str(<<>>)

\* C4: validating the normalized map of an accepted submission again, with
\* the same field list, reports no error and returns the same map.
C4_Idempotent ==
    vpc = "revalidated" =>
        /\ vOut2.isValid
        /\ DOMAIN vOut2.errors = {}
        /\ vOut2.validatedData = vOut.validatedData

\* C5: every key of the data map that names no field has an error recorded
\* under it and makes the result invalid, whatever the other keys hold.
C5_UnknownKeyRejected ==
    vpc # "input" =>
        \A key \in DOMAIN vData :
            (\A i \in VFieldIdx : vFields[i].name # key) =>
                /\ ~vOut.isValid
                /\ key \in DOMAIN vOut.errors
                /\ vOut.errors[key] =
                       Msg("Field does not exist in the table definition.", key)

\* C6: for a field of any of the seven types, a missing, null or '' value
\* is normalized to null and records no error under the field's name.
C6_EmptyIsNull ==
    vpc # "input" =>
        \A i \in VFieldIdx :
            (vFields[i].type \in validFieldTypes /\ SubmittedEmpty(i)) =>
                /\ vFields[i].name \in DOMAIN vOut.validatedData
                /\ vOut.validatedData[vFields[i].name] = Null
                /\ vFields[i].name \notin DOMAIN vOut.errors

\* strings that parse as a URL / as a calendar date
ParsesAsURL(s) == trim(s) = SUrl
ParsesAsDate(s) == trim(s) = SDate

\* C7: a website field accepts a value that parses as a URL and stores it
\* trimmed; a date field accepts a value that parses as a calendar date.
C7_WebsiteDateAccepted ==
    vpc # "input" =>
        \A i \in VFieldIdx :
            LET name == vFields[i].name IN
            (name \in DOMAIN vData /\ vData[name].k = "str") =>
                /\ (vFields[i].type = "website" /\ ParsesAsURL(vData[name].s)) =>
                       /\ name \notin DOMAIN vOut.errors
                       /\ name \in DOMAIN vOut.validatedData
                       /\ vOut.validatedData[name] = Str(trim(vData[name].s))
                /\ (vFields[i].type = "date" /\ ParsesAsDate(vData[name].s)) =>
                       /\ name \notin DOMAIN vOut.errors
                       /\ name \in DOMAIN vOut.validatedData

\* C8: a number field stores a non-empty value that parses as a number as
\* that number ("42" as 42) without error, and reports "Must be a valid
\* number." under the field's name for a value that does not parse.
C8_NumberField ==
    vpc # "input" =>
        \A i \in VFieldIdx :
            LET name == vFields[i].name IN
            (vFields[i].type = "number" /\ ~SubmittedEmpty(i)) =>
                LET value == vData[name]
                    num   == ToNumber(value)
                IN  /\ ~num.nan =>
                           /\ name \notin DOMAIN vOut.errors
                           /\ name \in DOMAIN vOut.validatedData
                           /\ vOut.validatedData[name] = Num(num.n)
                    /\ num.nan =>
                           /\ ~vOut.isValid
                           /\ name \in DOMAIN vOut.errors
                           /\ vOut.errors[name] = Msg("Must be a valid number.", <<>>)
                           /\ name \notin DOMAIN vOut.validatedData
                    /\ value \in {Str(S42), Str(SSp42), Num(42)} =>
                           /\ name \in DOMAIN vOut.validatedData
                           /\ vOut.validatedData[name] = Num(42)
                    /\ value \in {Str(SAbc), Str(SMail), Str(SDate)} =>
                           name \in DOMAIN vOut.errors

\* C9: a multiple_choice field with an options list accepts a non-empty
\* value exactly when it is a string that is a member of the list, stores
\* the accepted value trimmed, and reports an error for any other value.
C9_MultipleChoice ==
    vpc # "input" =>
        \A i \in VFieldIdx :
            LET name == vFields[i].name IN
            (/\ vFields[i].type = "multiple_choice"
             /\ IsArray(vFields[i].options)
             /\ ~SubmittedEmpty(i)) =>
                LET value  == vData[name]
                    member == /\ value.k = "str"
                              /\ \E j \in 1..Len(vFields[i].options.list) :
                                     vFields[i].options.list[j] = value.s
                IN  /\ member =>
                           /\ name \notin DOMAIN vOut.errors
                           /\ name \in DOMAIN vOut.validatedData
                           /\ vOut.validatedData[name] = Str(trim(value.s))
                    /\ ~member =>
                           /\ ~vOut.isValid
                           /\ name \in DOMAIN vOut.errors
                           /\ name \notin DOMAIN vOut.validatedData

----------------------------------------------------------------------------
(* Properties of the handlers.                                             *)

\* C1: a table DELETE changes the stored tables and entries in one step
\* only: the step that answers 200 removes the table and exactly the
\* entries whose tableId is that table, and every other step of the request
\* (the 400, 404 and 500 answers included) leaves tables and entries as
\* they were, so entries of other tables are never removed.
C1_DeleteAtomic ==
    [][ (InFlight /\ cur.op = "tableDelete") =>
            IF resp'.json /\ resp'.status = 200
            THEN /\ cur.tableId \in DOMAIN tables
                 /\ tables' = [t \in DOMAIN tables \ {cur.tableId} |-> tables[t]]
                 /\ entries' = [e \in {x \in DOMAIN entries :
                                          entries[x].tableId # cur.tableId} |->
                                   entries[e]]
            ELSE tables' = tables /\ entries' = entries
      ]_vars

\* a committed cascade: of two entries created, the one of the deleted
\* table is gone and the one of the other table is still stored
C1_Witness ==
    /\ resp.op = "tableDelete" /\ resp.status = 200
    /\ nextTableId = 3 /\ Cardinality(DOMAIN tables) = 1
    /\ nextEntryId = 3 /\ Cardinality(DOMAIN entries) = 1
    /\ \A e \in DOMAIN entries : entries[e].tableId \in DOMAIN tables

\* C2: no two stored tables have names that are equal ignoring case.
C2_TableNamesUnique ==
    \A t1 \in DOMAIN tables : \A t2 \in DOMAIN tables :
        t1 # t2 => toLowerCase(tables[t1].name) # toLowerCase(tables[t2].name)

\* the name is that of a field of the list other than the one at skip,
\* ignoring case
NameTaken(fields, name, skip) ==
    \E i \in 1..Len(fields) :
        i # skip /\ toLowerCase(fields[i].name) = toLowerCase(name)

\* the options of a field request are missing, not a list, an empty list,
\* or hold a blank or non-string option
UnusableOptions(options) ==
    \/ options.k # "array"
    \/ options.list = <<>>
    \/ \E i \in 1..Len(options.list) :
            options.list[i] = NumberOption \/ trim(options.list[i]) = <<>>

\* the request being answered is a field POST, or a field PUT for a field
\* of the table, whose trimmed name is that of another field of the table
CollidingFieldRequest ==
    /\ cur.op \in {"fieldPost", "fieldPut"}
    /\ cur.tableId \in DOMAIN tables
    /\ cur.body.name.k = "str"
    /\ LET fields == tables[cur.tableId].fields
           skip   == IF cur.op = "fieldPost" THEN 0
                     ELSE IF \E i \in 1..Len(fields) : fields[i].id = cur.id
                     THEN CHOOSE i \in 1..Len(fields) : fields[i].id = cur.id
                     ELSE -1
       IN  skip # -1 /\ NameTaken(fields, trim(cur.body.name.s), skip)

Offending(map, fields) ==
    {key \in DOMAIN map : \A i \in 1..Len(fields) : fields[i].name # key}
    \cup {fields[i].name : i \in {j \in 1..Len(fields) :
                /\ ~IsEmptyValue(GetProp(map, fields[j].name))
                /\ ~CheckField(fields[j], GetProp(map, fields[j].name)).ok}}

\* the request being answered is an entry POST or PUT that gets as far as
\* validateData
ReachesValidation ==
    /\ cur.op \in {"entryPost", "entryPut"}
    /\ cur.tableId \in DOMAIN tables
    /\ cur.data.k = "object"
    /\ cur.op = "entryPut" =>
         cur.id \in DOMAIN entries /\ entries[cur.id].tableId = cur.tableId

\* C10: an entry POST or PUT whose data validateData reports invalid is
\* answered 400 with an errors map holding a message for each offending
\* field or key and for nothing else; POST creates no entry and PUT leaves
\* the stored entries unchanged.
C10_InvalidDataRejected ==
    [][ (ReachesValidation /\ InFlight /\ resp'.json) =>
          LET v == validateData(cur.data.map, tables[cur.tableId].fields) IN
          ~v.isValid =>
              /\ resp'.status = 400
              /\ resp'.errors = v.errors
              /\ DOMAIN resp'.errors # {}
              /\ DOMAIN resp'.errors =
                     Offending(cur.data.map, tables[cur.tableId].fields)
              /\ entries' = entries
              /\ nextEntryId' = nextEntryId
      ]_vars

\* C11: the entry written by an entry POST or PUT answered 201 or 200 has
\* data keys that are all names of fields of its table as read by the
\* request, and holds null for every field of the table whose submitted
\* value was missing, null or ''.
C11_WrittenData ==
    [][ (/\ cur.op \in {"entryPost", "entryPut"}
         /\ InFlight
         /\ resp'.json
         /\ resp'.status \in {200, 201}) =>
          LET id      == IF cur.op = "entryPost" THEN nextEntryId ELSE cur.id
              fields  == tables[cur.tableId].fields
              written == entries'[id].data
          IN  /\ \A key \in DOMAIN written :
                    \E i \in 1..Len(fields) : fields[i].name = key
              /\ \A i \in 1..Len(fields) :
                    (\/ fields[i].name \notin DOMAIN cur.data.map
                     \/ cur.data.map[fields[i].name] \in {Null, Str(<<>>)}) =>
                        /\ fields[i].name \in DOMAIN written
                        /\ written[fields[i].name] = Null
      ]_vars

\* C12: a field POST or PUT of type multiple_choice whose options are
\* missing, not a list, empty, or hold a blank or non-string option is
\* answered 400 by the handler and leaves every table's field list as it
\* was.
C12_BadOptionsRejected ==
    [][ (/\ cur.op \in {"fieldPost", "fieldPut"}
         /\ InFlight
         /\ resp'.json
         /\ cur.body.type = "multiple_choice"
         /\ UnusableOptions(cur.body.options)) =>
            /\ resp'.status = 400
            /\ ~resp'.success
            /\ tables' = tables
      ]_vars

\* a PUT for an existing field, with a number among its options, was
\* refused by the check of the options' elements
C12_Witness ==
    /\ resp.op = "fieldPut"
    /\ resp.status = 400
    /\ resp.message = "All options must be non-empty strings."
    /\ cur.op = "fieldPut"
    /\ cur.body.options = Options(<<SRed, NumberOption>>)
    /\ cur.tableId \in DOMAIN tables
    /\ \E i \in 1..Len(tables[cur.tableId].fields) :
           tables[cur.tableId].fields[i].id = cur.id

\* C13: in every state reached by field POST, PUT and DELETE requests,
\* each stored field has a non-empty options list exactly when its type is
\* multiple_choice.
C13_OptionsIffMultipleChoice ==
    \A t \in DOMAIN tables :
        \A i \in 1..Len(tables[t].fields) :
            (Len(tables[t].fields[i].options.list) > 0)
                <=> (tables[t].fields[i].type = "multiple_choice")

\* a PUT whose body carried options with the type number was answered 200:
\* its field is stored without options, next to a multiple_choice field
\* that holds its option
C13_Witness ==
    /\ resp.op = "fieldPut" /\ resp.status = 200
    /\ cur.op = "fieldPut"
    /\ cur.body = FieldBody(Str(SZip), "number", Options(<<SRed>>))
    /\ cur.tableId \in DOMAIN tables
    /\ LET fields == tables[cur.tableId].fields IN
        /\ Len(fields) = 2
        /\ \E i, j \in 1..2 :
            /\ fields[i].id = cur.id
            /\ fields[i].name = SZip
            /\ fields[i].type = "number"
            /\ fields[i].options = Options(<<>>)
            /\ fields[j].type = "multiple_choice"
            /\ fields[j].options = Options(<<SRed>>)

\* the request being answered is an entry PUT or DELETE on an existing
\* table whose well-formed entryId is not that of an entry of this table
ForeignEntryRequest ==
    /\ InFlight
    /\ cur.op \in {"entryPut", "entryDelete"}
    /\ cur.tableId \in DOMAIN tables
    /\ cur.id >= 0
    /\ ~(cur.id \in DOMAIN entries /\ entries[cur.id].tableId = cur.tableId)

\* C14 as stated: an entry PUT or DELETE whose entryId is that of an entry
\* of another table, or of no entry, is answered 404 and changes no entry.
C14_ForeignEntry404 ==
    [][ (ForeignEntryRequest /\ resp'.json) =>
            /\ resp'.status = 404
            /\ entries' = entries
      ]_vars

\* C14, amended: an entry PUT or DELETE whose entryId is that of an entry
\* of another table, or of no entry, changes no entry; it is answered 404
\* "Entry not found" when, for PUT, the body's data is an object, and 400
\* when it is not.
C14_ForeignEntryUntouched ==
    [][ (ForeignEntryRequest /\ resp'.json) =>
            /\ entries' = entries
            /\ IF cur.op = "entryPut" /\ cur.data.k # "object"
               THEN resp'.status = 400
               ELSE resp'.status = 404 /\ resp'.message = "Entry not found"
      ]_vars

\* a PUT naming table 1 and an entry of table 2 was answered 404, and a
\* DELETE likewise; the entry is still stored with its data
C14_Witness ==
    /\ cur.op \in {"entryPut", "entryDelete"}
    /\ resp.op = cur.op
    /\ resp.status = 404
    /\ resp.message = "Entry not found"
    /\ cur.tableId \in DOMAIN tables
    /\ cur.id \in DOMAIN entries
    /\ entries[cur.id].tableId \in DOMAIN tables \ {cur.tableId}

\* the request being answered has a malformed table, field or entry
\* identifier, or a payload of the wrong shape
MalformedRequest ==
    /\ InFlight
    /\ \/ cur.op # "tableCreate" /\ cur.tableId < 0
       \/ cur.op \in {"fieldPut", "fieldDelete", "entryPut", "entryDelete"} /\ cur.id < 0
       \/ cur.op \in {"entryPost", "entryPut"} /\ cur.data.k # "object"
       \/ cur.op = "tableCreate" /\ cur.body.name.k # "str"
       \/ /\ cur.op \in {"fieldPost", "fieldPut"}
          /\ \/ cur.body.name.k # "str"
             \/ cur.body.type \notin validFieldTypes
             \/ cur.body.type = "multiple_choice" /\ UnusableOptions(cur.body.options)

\* C15: a request with a malformed identifier or a wrongly shaped payload
\* is answered 400 by its handler, and the handler has issued no read or
\* write of the store for it by then.
C15_MalformedBeforeStore ==
    [][ (MalformedRequest /\ resp'.json) =>
            /\ resp'.status = 400
            /\ calls' = <<>>
      ]_vars

\* C16: every request that has been answered got a response body of the
\* form {success, message, errors} from its handler, with success = false
\* whenever the status is not 200 or 201.
C16_AlwaysShapedResponse ==
    (cur.op # "none" /\ resp.op # "none") =>
        /\ resp.json
        /\ resp.success <=> resp.status \in {200, 201}

----------------------------------------------------------------------------
(* Properties of the grid, checked under SpecGrid.                         *)

\* this step called saveEditedCell for cell with the edit value value: it
\* has sent the request for them, or has refused the value
SaveInvoked(cell, value) ==
    \/ updating' /\ \E s \in saves' \ saves : s.cell = cell /\ s.value = value
    \/ ~updating' /\ saves' = saves /\ updateError' # NoError

\* the keys of C17
CommitKeys == {"Enter", "Tab", "ArrowUp", "ArrowDown"}

\* e is a key of C17 pressed in a cell whose adjacent target is in the grid
MovesInside(e) ==
    /\ e.type = "keydown"
    /\ e.key \in CommitKeys
    /\ InGrid(TargetRow(e.key, e.shiftKey, e.cell), TargetCol(e.key, e.shiftKey, e.cell))

\* the grid is editing the target of the key event e
EditingTargetOf(e, cell) ==
    /\ cell.rowIndex = TargetRow(e.key, e.shiftKey, e.cell)
    /\ cell.colIndex = TargetCol(e.key, e.shiftKey, e.cell)

\* C17: Enter, Tab, ArrowUp or ArrowDown pressed while editing a cell whose
\* adjacent target is inside the grid invokes a save of the cell with the
\* current edit value and moves the grid to editing the adjacent cell; and
\* when that save then completes successfully the grid is editing the
\* adjacent cell.
C17_CommitAndMove ==
    [][ /\ MovesInside(event') =>
                /\ event'.cell = editingCell
                /\ SaveInvoked(editingCell, editValue)
                /\ EditingTargetOf(event', editingCell')
        /\ (MovesInside(event) /\ event'.type = "resolved") =>
                EditingTargetOf(event, editingCell')
      ]_vars

\* C18: when the edit control loses focus while a cell is being edited, a
\* save of that cell is invoked, and once that save has been handled
\* (refused at once, or its request settled) the grid is idle.
C18_BlurThenIdle ==
    [][ /\ event'.type = "blur" =>
                /\ event'.cell = editingCell
                /\ SaveInvoked(editingCell, editValue)
                /\ ~updating' => editingCell' = NoCell
        /\ (event.type = "blur" /\ event'.type \in {"resolved", "rejected"}) =>
                editingCell' = NoCell
      ]_vars

\* C19: Escape pressed while a cell is being edited leaves the grid idle,
\* with the edit value and the update error cleared, sends no update
\* request and leaves the entries as they were.
C19_EscapeDiscards ==
    [][ (event'.type = "keydown" /\ event'.key = "Escape") =>
            /\ editingCell # NoCell
            /\ editingCell' = NoCell
            /\ editValue' = <<>>
            /\ updateError' = NoError
            /\ ~updating'
            /\ saves' = saves
            /\ gEntries' = gEntries
      ]_vars

\* Escape has been pressed in a cell
C19_Witness ==
    /\ event.type = "keydown"
    /\ event.key = "Escape"
    /\ event.cell # NoCell
    /\ editingCell = NoCell
    /\ saves = {}

\* e is a navigation key pressed in a cell whose target is outside the grid
MovesOutside(e) ==
    /\ e.type = "keydown"
    /\ e.key \in NavigationKeys
    /\ ~InGrid(TargetRow(e.key, e.shiftKey, e.cell), TargetCol(e.key, e.shiftKey, e.cell))

----------------------------------------------------------------------------
(* Properties of row selection and deletion, checked under SpecRows.       *)

\* the calls held by the Promise.all of the handleBulkDelete call b
OfBulk(b) == {d \in deletes : d.bulk = b}

\* this step settles the Promise.all of the handleBulkDelete call b and runs
\* the rest of handleBulkDelete
BulkCompletes(b) == b \in ActiveBulks /\ b \notin {d.bulk : d \in deletes'}

\* of the delete calls of b, the one finishing in this step included, at
\* least one has succeeded and at least one has failed
PartlyDeleted(b) ==
    /\ gEntries' # gEntries \/ \E d \in OfBulk(b) : d.state = "ok"
    /\ gEntries' = gEntries \/ \E d \in OfBulk(b) : d.state = "failed"

\* C21: when a bulk delete has finished with at least one of its delete
\* calls failed and at least one succeeded, the component's error state is
\* set and the rows whose delete succeeded are no longer displayed.
C21_BulkDeleteSurfacesError ==
    [][ \A b \in 1..MaxBulks :
            (BulkCompletes(b) /\ PartlyDeleted(b)) =>
                /\ error' # NoError
                /\ \A d \in OfBulk(b) :
                        d.state = "ok" => d.entryId \notin {gEntries'[i].id : i \in 1..Len(gEntries')}
      ]_vars

\* C29: every id in selectedRows is the id of an entry that is displayed.
C29_SelectedRowsDisplayed == selectedRows \subseteq DisplayedIds

----------------------------------------------------------------------------
(* Properties of drag selection, checked under SpecDrag.                   *)

\* C24: the grid is idle, editing or dragging and never two of them: no
\* cell is being edited while isDragging is true, and dragStart and dragEnd
\* are non-null only while isDragging is true.
C24_IdleEditingOrDragging ==
    /\ ~(editingCell # NoCell /\ isDragging)
    /\ (dragStart # NoCell \/ dragEnd # NoCell) => isDragging

\* a drag from one cell to another is under way
C24_Witness ==
    /\ isDragging
    /\ dragStart # NoCell
    /\ dragEnd \notin {NoCell, dragStart}
    /\ mouse = dragStart
    /\ editingCell = NoCell
    /\ event.type = "resolved"

----------------------------------------------------------------------------
(* Further properties of the entry and field handlers.                     *)

\* C23: a successful entry PUT stores the normalized form of the submitted
\* map and nothing of what the entry held: every field of the table that
\* is absent from the submitted map is stored as null, and the entry keeps
\* its id and its tableId.
C23_PutReplacesData ==
    [][ (cur.op = "entryPut" /\ InFlight /\ resp'.json /\ resp'.status = 200) =>
            LET fields == tables[cur.tableId].fields IN
            /\ DOMAIN entries' = DOMAIN entries
            /\ entries'[cur.id].tableId = entries[cur.id].tableId
            /\ entries'[cur.id].data = validateData(cur.data.map, fields).validatedData
            /\ \A i \in 1..Len(fields) :
                    fields[i].name \notin DOMAIN cur.data.map =>
                        /\ fields[i].name \in DOMAIN entries'[cur.id].data
                        /\ entries'[cur.id].data[fields[i].name] = Null
            /\ \A id \in DOMAIN entries \ {cur.id} : entries'[id] = entries[id]
      ]_vars

\* a PUT that leaves a field out has been answered 200
C23_Witness ==
    /\ resp.op = "entryPut"
    /\ resp.status = 200
    /\ SZip \notin DOMAIN cur.data.map
    /\ SAge \in DOMAIN cur.data.map
    /\ entries[cur.id].data[SZip] = Null
    /\ entries[cur.id].data[SAge] # Null

\* C22: after a field DELETE has succeeded the field is no longer in the
\* table and no entry of the table holds a value under the field's name.
C22_FieldDeleteCleansEntries ==
    [][ (cur.op = "fieldDelete" /\ InFlight /\ resp'.json /\ resp'.status = 200) =>
            LET fields == tables[cur.tableId].fields
                deleted == fields[findIndex(fields, cur.id)]
            IN  /\ findIndex(tables'[cur.tableId].fields, cur.id) = 0
                /\ \A id \in DOMAIN entries' :
                        (/\ entries'[id].tableId = cur.tableId
                         /\ deleted.name \in DOMAIN entries'[id].data) =>
                            entries'[id].data[deleted.name] = Null
      ]_vars

\* C28: whatever fields have been added, renamed, retyped and deleted, the
\* PUT of a cell save (the entry's stored data with one cell set to a value
\* valid for its field) is answered 200 and the entry is updated.
C28_CellSaveAccepted ==
    [][ (/\ cur.op = "entryPut"
         /\ InFlight
         /\ resp'.json
         /\ TableFound(cur.tableId)
         /\ EntryFound(cur.id, cur.tableId)
         /\ cur.data.k = "object"
         /\ IsCellSave(entries[cur.id], tables[cur.tableId].fields, cur.data.map)) =>
            /\ resp'.status = 200
            /\ entries'[cur.id].data =
                    validateData(cur.data.map, tables[cur.tableId].fields).validatedData
      ]_vars

----------------------------------------------------------------------------
(* Properties of dbConnect, checked under SpecConnect.                     *)

\* a call of dbConnect ran up to its await or its early return
CallStarted(p) == procs[p].pc = "idle" /\ procs'[p].pc # "idle"

\* C30: at most one connection attempt is in flight; the calls that have
\* returned all hold the cached connection; with a connection cached no
\* attempt is started; the rejection of an attempt leaves no promise cached,
\* and a call made while there is neither a connection nor an attempt in
\* flight starts a new attempt.
C30_SingleAttempt ==
    [][/\ Cardinality({n \in DOMAIN attempts' : attempts'[n] = "pending"}) <= 1
       /\ \A p \in Callers : procs'[p].pc = "returned" =>
              /\ procs'[p].result # 0
              /\ procs'[p].result = cached'.conn
       /\ cached.conn # 0 => attempts' = attempts
       /\ \A n \in DOMAIN attempts :
              attempts[n] = "pending" /\ attempts'[n] = "rejected" =>
                  cached'.promise = 0
       /\ \A p \in Callers :
              CallStarted(p) /\ cached.conn = 0 /\ InFlightAttempts = {} =>
                  /\ Len(attempts') = Len(attempts) + 1
                  /\ attempts'[Len(attempts')] = "pending"
                  /\ procs'[p].awaiting = Len(attempts')]_vars

\* an attempt failed, a later one succeeded and two calls returned the
\* connection of the later attempt
C30_Witness ==
    /\ \E n \in DOMAIN attempts : attempts[n] = "rejected"
    /\ \E p, q \in Callers :
          /\ p # q
          /\ procs[p].pc = "returned" /\ procs[q].pc = "returned"
          /\ procs[p].awaiting = procs[q].awaiting
          /\ procs[p].awaiting # 0
          /\ procs[p].result = cached.conn

----------------------------------------------------------------------------
(* Properties of handlers running side by side, checked under SpecRace.    *)

\* every request received has been answered
AllFinished == \A p \in Handlers : procs[p].pc \in {"idle", "done"}

\* handler p was answered 2xx to a request of the given kind
Succeeded(p, op) ==
    procs[p].pc = "done" /\ procs[p].req.op = op /\ procs[p].status \in {200, 201}

\* C25: once an entry POST and a DELETE of its table have both finished, no
\* stored entry references a table that does not exist.
C25_NoOrphanEntry ==
    (/\ AllFinished
     /\ \E p, q \in Handlers :
           /\ procs[p].req.op = "entryPost" /\ procs[p].pc = "done"
           /\ procs[q].req.op = "tableDelete" /\ procs[q].pc = "done")
        => \A e \in DOMAIN entries : entries[e].tableId \in DOMAIN tables

\* C26: of two table creates whose trimmed names are equal ignoring case, at
\* most one creates a table.
C26_OneTableCreated ==
    \A p, q \in Handlers :
        (/\ p # q
         /\ procs[p].req.op = "tableCreate"
         /\ procs[q].req.op = "tableCreate"
         /\ toLowerCase(trim(procs[p].req.body.name.s))
                = toLowerCase(trim(procs[q].req.body.name.s)))
            => /\ ~(Succeeded(p, "tableCreate") /\ Succeeded(q, "tableCreate"))
               /\ \A t, u \in DOMAIN tables :
                      toLowerCase(tables[t].name) = toLowerCase(tables[u].name) => t = u

\* C27: two field POSTs on one table whose names are equal ignoring case
\* leave at most one field of that name in the table.
C27_OneFieldOfName ==
    \A t \in DOMAIN tables :
        \A i, j \in 1..Len(tables[t].fields) :
            toLowerCase(tables[t].fields[i].name) = toLowerCase(tables[t].fields[j].name)
                => i = j

====
